---------------------------- MODULE Spec2Model ----------------------------
(***************************************************************************)
(* The poster text-composition engine of App.tsx: wrapText and the         *)
(* image-load handler of drawImageWithTextOverlay (font-fit loop, post-    *)
(* loop re-wrap, vertical compositor, encoding).                           *)
(*                                                                         *)
(* Representation.                                                         *)
(*  - Lengths are fixed-point numbers in 1/1000 px ("milli-pixels"); the   *)
(*    code's floating-point products x*0.9, x*1.2, x*0.85, x*0.03 and      *)
(*    quotients x/18, x/15, ... are computed on them with truncation.      *)
(*  - A string is the sequence of its space-separated words, as            *)
(*    text.split(' ') yields them; the empty string is <<>>.  A word is    *)
(*    its advance width in tenths of an em; EmptyWord is the empty word    *)
(*    that split(' ') yields between two adjacent spaces and for a leading *)
(*    or trailing space.                                                   *)
(*  - context.measureText(s).width at the current font is the sum of the   *)
(*    advances of the words and of the spaces joining them, times the font *)
(*    size.                                                                *)
(*  - Vertical and horizontal positions are kept doubled (names ending in  *)
(*    2) so that the halves the compositor takes stay exact.               *)
(***************************************************************************)
EXTENDS Integers, Sequences, FiniteSets, TLC

VARIABLES
    pc,                  \* position of the call / of the onload handler
    canvasOk,            \* canvasRef.current is an element
    ctxOk,               \* canvas.getContext('2d') returns a context
    engText, telText,    \* the arguments engText, telText
    imgW, imgH,          \* img.width, img.height of the base image (px)
    canvasW, canvasH,    \* canvas.width, canvas.height (px)
    background,          \* what ctx.drawImage put on the canvas
    englishFontSize, teluguFontSize,
    englishLines, teluguLines,
    englishLineHeight, teluguLineHeight,
    englishBlockHeight, teluguBlockHeight,
    i,                   \* the loop counter of the font-fit loop
    totalTextHeight,     \* the fit test's total of the last iteration run
    totalActualTextHeight,
    currentY2,           \* 2 * currentY
    painted,             \* the strokeText/fillText calls made, in order
    shadowOn,            \* ctx.shadowColor is not 'transparent'
    warned,              \* console.warn("Max font size reduction ...") ran
    result,              \* how the promise settled
    dataUrl,             \* the canvas as canvas.toDataURL encoded it
    loads                \* how many times img.src was set

\* one call of a function of services/geminiService.ts
VARIABLES
    svcPc,               \* "idle", "awaiting" the provider, "returned", "threw"
    svcFn,               \* the function called
    svcPrompt,           \* its userPrompt argument
    svcPref,             \* its languagePreference argument
    svcProvider,         \* what the provider call did
    svcResult            \* the value returned or the message of the Error thrown

\* two calls of drawImageWithTextOverlay on the one canvas
VARIABLES
    calls                \* per call: its arguments, its promise, its data URL

\* the App component
VARIABLES
    allSessions,         \* the sessions, each with its title and items
    activeSessionId,
    userPrompt,          \* the text in the prompt box
    isOverallLoading,
    showLanguageModal,
    pendingPrompt,
    now,                 \* Date.now(), counted in the calls that read it
    gens,                \* the calls of proceedWithGeneration, in call order
    lastDownload         \* the last call of handleDownloadImageForItem

vars == << pc, canvasOk, ctxOk, engText, telText, imgW, imgH, canvasW, canvasH,
           background, englishFontSize, teluguFontSize, englishLines,
           teluguLines, englishLineHeight, teluguLineHeight,
           englishBlockHeight, teluguBlockHeight, i, totalTextHeight,
           totalActualTextHeight, currentY2, painted, shadowOn, warned,
           result, dataUrl, loads,
           svcPc, svcFn, svcPrompt, svcPref, svcProvider, svcResult,
           calls,
           allSessions, activeSessionId, userPrompt, isOverallLoading,
           showLanguageModal, pendingPrompt, now, gens, lastDownload >>

appVars ==
    << allSessions, activeSessionId, userPrompt, isOverallLoading,
       showLanguageModal, pendingPrompt, now, gens, lastDownload >>

serviceVars == << svcPc, svcFn, svcPrompt, svcPref, svcProvider, svcResult >>

\* the state outside a call of drawImageWithTextOverlay
restVars == << serviceVars, calls, appVars >>

---------------------------------------------------------------------------
(* Bounds of the model *)

\* longest text of the exhaustively enumerated texts, in words
MaxShort == 2
\* longest text of the repeated-word texts, in words
MaxWords == 12
\* advance of the space character, in tenths of an em
SpaceAdvance == 3

EmptyWord == 0
\* word advances used: a 10 em word and a 30 em word
NonEmptyWords == {100, 300}
Words == {EmptyWord} \cup NonEmptyWords

\* every string of at most MaxShort words (the one-word string made of the
\* empty word is the empty string, which is <<>>)
ShortTexts ==
    (UNION {[1..n -> Words] : n \in 0..MaxShort}) \ {<<EmptyWord>>}

\* n times the same word, joined by single spaces
LongTexts ==
    {[k \in 1..n |-> w] : n \in (MaxShort + 1)..MaxWords, w \in NonEmptyWords}

Texts == ShortTexts \cup LongTexts

\* base images: <<width, height>> in px
Images == {<<1260, 720>>, <<1260, 288>>, <<126, 90>>}

---------------------------------------------------------------------------
(* Arithmetic helpers *)

Max(a, b) == IF a >= b THEN a ELSE b
Min(a, b) == IF a <= b THEN a ELSE b
Px(n) == n * 1000

---------------------------------------------------------------------------
(* wrapText *)

\* !s for a string s
IsEmptyString(s) == s = <<>>

\* text.split(' ')
Split(text) == IF text = <<>> THEN <<EmptyWord>> ELSE text

\* the string made of the single word w
WordString(w) == IF w = EmptyWord THEN <<>> ELSE <<w>>

\* context.measureText(s).width with a font of fontSize
RECURSIVE AdvanceSum(_, _)
AdvanceSum(s, k) == IF k = 0 THEN 0 ELSE s[k] + AdvanceSum(s, k - 1)

MeasureText(fontSize, s) ==
    IF s = <<>> THEN 0
    ELSE (fontSize * (AdvanceSum(s, Len(s)) + SpaceAdvance * (Len(s) - 1))) \div 10

\* a mutant of TestLine: the word replaces the line instead of joining it
TestLineReplacing(currentLine, word) == WordString(word)

\* currentLine ? currentLine + ' ' + word : word
TestLine(currentLine, word) ==
    IF ~IsEmptyString(currentLine) THEN Append(currentLine, word)
    ELSE WordString(word)

\* a mutant of TestWidth: measures the word instead of the test line
TestWidthOfWord(fontSize, currentLine, word) ==
    MeasureText(fontSize, WordString(word))

\* metrics.width of the test line
TestWidth(fontSize, currentLine, word) ==
    MeasureText(fontSize, TestLine(currentLine, word))

\* a mutant of WrapFrom: the final push without its if (currentLine)
RECURSIVE WrapFromPushingLast(_, _, _, _, _, _)
WrapFromPushingLast(fontSize, words, maxWidth, k, lines, currentLine) ==
    IF k > Len(words)
    THEN Append(lines, currentLine)
    ELSE IF TestWidth(fontSize, currentLine, words[k]) > maxWidth
            /\ ~IsEmptyString(currentLine)
         THEN WrapFromPushingLast(fontSize, words, maxWidth, k + 1,
                       Append(lines, currentLine), WordString(words[k]))
         ELSE WrapFromPushingLast(fontSize, words, maxWidth, k + 1,
                       lines, TestLine(currentLine, words[k]))

\* the for loop of wrapText from words[k] on, and the final push
RECURSIVE WrapFrom(_, _, _, _, _, _)
WrapFrom(fontSize, words, maxWidth, k, lines, currentLine) ==
    IF k > Len(words)
    THEN IF ~IsEmptyString(currentLine) THEN Append(lines, currentLine)
         ELSE lines
    ELSE IF TestWidth(fontSize, currentLine, words[k]) > maxWidth
            /\ ~IsEmptyString(currentLine)
         THEN WrapFrom(fontSize, words, maxWidth, k + 1,
                       Append(lines, currentLine), WordString(words[k]))
         ELSE WrapFrom(fontSize, words, maxWidth, k + 1,
                       lines, TestLine(currentLine, words[k]))

\* wrapText(context, text, maxWidth), the context's font having fontSize
wrapText(fontSize, text, maxWidth) ==
    IF IsEmptyString(text) THEN <<>>
    ELSE WrapFrom(fontSize, Split(text), maxWidth, 1, <<>>, <<>>)

---------------------------------------------------------------------------
(* The layout region of the onload handler *)

maxIterations == 20

\* text.trim(): the string without its leading and trailing spaces
RECURSIVE TrimLeft(_)
TrimLeft(s) ==
    IF s = <<>> THEN <<>>
    ELSE IF Head(s) = EmptyWord
         THEN (IF Len(s) = 1 THEN <<>> ELSE TrimLeft(Tail(s)))
         ELSE s
RECURSIVE TrimRight(_)
TrimRight(s) ==
    IF s = <<>> THEN <<>>
    ELSE IF s[Len(s)] = EmptyWord
         THEN (IF Len(s) = 1 THEN <<>> ELSE TrimRight(SubSeq(s, 1, Len(s) - 1)))
         ELSE s
Trim(s) == TrimRight(TrimLeft(s))

\* text && text.trim() !== ''
HasText(text) == ~IsEmptyString(text) /\ Trim(text) # <<>>

hasEnglish == HasText(engText)
hasTelugu == HasText(telText)

\* a mutant of textMaxWidth: the whole canvas width
FullCanvasWidth == Px(canvasW)

\* canvas.width * 0.85
textMaxWidth == canvasW * 850
textX2 == Px(canvasW)
availableHeightForText == canvasH * 850
\* Math.max(8, canvas.width / 70)
MinFontSizeOf(w) == Max(Px(8), Px(w) \div 70)
minFontSize == MinFontSizeOf(canvasW)
interTextPadding == Max(Px(15), canvasH * 30)

\* the initial sizes for an image of w x h px (lines 159-160)
InitialEnglishFontSize(w, h) ==
    Max(MinFontSizeOf(w), Min(Px(w) \div 18, Px(h) \div 15))
InitialTeluguFontSize(w, h) ==
    Max(MinFontSizeOf(w), Min(Px(w) \div 16, Px(h) \div 12))

\* fontSize * 1.2
LineHeight(fontSize) == (fontSize * 12) \div 10

---------------------------------------------------------------------------
(* The font-fit loop *)

\* lines 174-181 and 206-212, at the current englishFontSize
WrapEnglish ==
    IF hasEnglish THEN wrapText(englishFontSize, engText, textMaxWidth)
    ELSE <<>>

\* lines 183-190 and 213-219, at the current teluguFontSize
WrapTelugu ==
    IF hasTelugu THEN wrapText(teluguFontSize, telText, textMaxWidth)
    ELSE <<>>

\* a mutant of PaddingIncluded: padding as soon as one block has lines
PaddingIfAnyBlock(eLines, tLines) ==
    (hasEnglish /\ Len(eLines) > 0) \/ (hasTelugu /\ Len(tLines) > 0)

\* hasEnglish && hasTelugu && englishLines.length > 0 && teluguLines.length > 0
PaddingIncluded(eLines, tLines) ==
    hasEnglish /\ hasTelugu /\ Len(eLines) > 0 /\ Len(tLines) > 0

\* englishBlockHeight + (... ? interTextPadding : 0) + teluguBlockHeight
StackHeight(eLines, tLines, eSize, tSize) ==
    Len(eLines) * LineHeight(eSize)
    + (IF PaddingIncluded(eLines, tLines) THEN interTextPadding ELSE 0)
    + Len(tLines) * LineHeight(tSize)

\* a mutant of ShrunkSize: the shrink without its floor
ShrunkSizeNoFloor(size) == (size * 9) \div 10

\* a mutant of ShrunkSize: the factor above one
GrownSize(size) == Max(minFontSize, (size * 11) \div 10)

\* Math.max(minFontSize, size * 0.9)
ShrunkSize(size) == Max(minFontSize, (size * 9) \div 10)

\* a mutant of NextEnglishFontSize: the size of a blank block shrinks too
NextEnglishFontSizeOfAnyText ==
    IF englishFontSize > minFontSize
    THEN ShrunkSize(englishFontSize) ELSE englishFontSize

\* line 199
NextEnglishFontSize ==
    IF hasEnglish /\ englishFontSize > minFontSize
    THEN ShrunkSize(englishFontSize) ELSE englishFontSize

\* a mutant of NextTeluguFontSize: a shrink of one hundredth
NextTeluguFontSizeBarely ==
    IF hasTelugu /\ teluguFontSize > minFontSize
    THEN Max(minFontSize, (teluguFontSize * 99) \div 100) ELSE teluguFontSize

\* line 200
NextTeluguFontSize ==
    IF hasTelugu /\ teluguFontSize > minFontSize
    THEN ShrunkSize(teluguFontSize) ELSE teluguFontSize

\* a mutant of BothAtFloor: stop as soon as one size is at the floor
EitherAtFloor ==
    englishFontSize <= minFontSize \/ teluguFontSize <= minFontSize

\* englishFontSize <= minFontSize && teluguFontSize <= minFontSize
BothAtFloor ==
    englishFontSize <= minFontSize /\ teluguFontSize <= minFontSize

\* lines 171-194: what one iteration computes before its exit tests
IterationMeasures ==
    /\ englishLineHeight' = LineHeight(englishFontSize)
    /\ teluguLineHeight' = LineHeight(teluguFontSize)
    /\ englishLines' = WrapEnglish
    /\ englishBlockHeight' = Len(WrapEnglish) * LineHeight(englishFontSize)
    /\ teluguLines' = WrapTelugu
    /\ teluguBlockHeight' = Len(WrapTelugu) * LineHeight(teluguFontSize)
    /\ totalTextHeight' =
          StackHeight(WrapEnglish, WrapTelugu, englishFontSize, teluguFontSize)

Fits ==
    StackHeight(WrapEnglish, WrapTelugu, englishFontSize, teluguFontSize)
        <= availableHeightForText

---------------------------------------------------------------------------
(* The call and the image load *)

CanvasUnchanged == UNCHANGED << canvasW, canvasH, background, painted, shadowOn >>
LayoutUnchanged ==
    UNCHANGED << englishFontSize, teluguFontSize, englishLines, teluguLines,
                 englishLineHeight, teluguLineHeight, englishBlockHeight,
                 teluguBlockHeight, i, totalTextHeight, totalActualTextHeight,
                 currentY2, warned >>

\* drawImageWithTextOverlay called with no canvas element (lines 130-134)
CallNoCanvas ==
    /\ pc = "idle"
    /\ UNCHANGED loads
    /\ UNCHANGED restVars
    /\ canvasOk' = FALSE
    /\ ctxOk' = FALSE
    /\ \E eng \in Texts, tel \in Texts : engText' = eng /\ telText' = tel
    /\ result' = "Canvas element not found"
    /\ pc' = "rejected"
    /\ UNCHANGED << imgW, imgH, dataUrl >>
    /\ CanvasUnchanged /\ LayoutUnchanged

\* ... with a canvas that gives no 2D context (lines 135-139)
CallNoContext ==
    /\ pc = "idle"
    /\ UNCHANGED loads
    /\ UNCHANGED restVars
    /\ canvasOk' = TRUE
    /\ ctxOk' = FALSE
    /\ \E eng \in Texts, tel \in Texts : engText' = eng /\ telText' = tel
    /\ result' = "Failed to get canvas context"
    /\ pc' = "rejected"
    /\ UNCHANGED << imgW, imgH, dataUrl >>
    /\ CanvasUnchanged /\ LayoutUnchanged

\* ... with canvas and context: the image starts loading (lines 141-142, 275)
CallLoad ==
    /\ pc = "idle"
    /\ loads' = loads + 1
    /\ UNCHANGED restVars
    /\ canvasOk' = TRUE
    /\ ctxOk' = TRUE
    /\ \E eng \in Texts, tel \in Texts : engText' = eng /\ telText' = tel
    /\ pc' = "loading"
    /\ UNCHANGED << imgW, imgH, result, dataUrl >>
    /\ CanvasUnchanged /\ LayoutUnchanged

\* a mutant of ImgOnError: the image source is set again after a first failure
ImgOnErrorRetrying ==
    /\ pc = "loading"
    /\ IF loads < 2
       THEN loads' = loads + 1 /\ UNCHANGED << pc, result >>
       ELSE /\ result' = "Failed to load base image."
            /\ pc' = "rejected"
            /\ UNCHANGED loads
    /\ UNCHANGED restVars
    /\ UNCHANGED << canvasOk, ctxOk, engText, telText, imgW, imgH, dataUrl >>
    /\ CanvasUnchanged /\ LayoutUnchanged

\* img.onerror (lines 271-274)
ImgOnError ==
    /\ pc = "loading"
    /\ UNCHANGED loads
    /\ UNCHANGED restVars
    /\ result' = "Failed to load base image."
    /\ pc' = "rejected"
    /\ UNCHANGED << canvasOk, ctxOk, engText, telText, imgW, imgH, dataUrl >>
    /\ CanvasUnchanged /\ LayoutUnchanged

\* a mutant of ImgOnLoad: the canvas keeps its size
ImgOnLoadNoResize(w, h) ==
    /\ pc = "loading"
    /\ UNCHANGED loads
    /\ UNCHANGED restVars
    /\ imgW' = w /\ imgH' = h
    /\ UNCHANGED << canvasW, canvasH >>
    /\ background' = <<w, h>>
    /\ painted' = <<>>
    /\ englishFontSize' = InitialEnglishFontSize(w, h)
    /\ teluguFontSize' = InitialTeluguFontSize(w, h)
    /\ englishLines' = <<>> /\ teluguLines' = <<>>
    /\ englishLineHeight' = 0 /\ teluguLineHeight' = 0
    /\ englishBlockHeight' = 0 /\ teluguBlockHeight' = 0
    /\ i' = 0
    /\ pc' = "loop"
    /\ UNCHANGED << canvasOk, ctxOk, engText, telText, totalTextHeight,
                    totalActualTextHeight, currentY2, shadowOn, warned,
                    result, dataUrl >>

\* img.onload up to the loop (lines 143-169)
ImgOnLoad(w, h) ==
    /\ pc = "loading"
    /\ UNCHANGED loads
    /\ UNCHANGED restVars
    /\ imgW' = w /\ imgH' = h
    /\ canvasW' = w /\ canvasH' = h
    /\ background' = <<w, h>>
    /\ painted' = <<>>
    /\ englishFontSize' = InitialEnglishFontSize(w, h)
    /\ teluguFontSize' = InitialTeluguFontSize(w, h)
    /\ englishLines' = <<>> /\ teluguLines' = <<>>
    /\ englishLineHeight' = 0 /\ teluguLineHeight' = 0
    /\ englishBlockHeight' = 0 /\ teluguBlockHeight' = 0
    /\ i' = 0
    /\ pc' = "loop"
    /\ UNCHANGED << canvasOk, ctxOk, engText, telText, totalTextHeight,
                    totalActualTextHeight, currentY2, shadowOn, warned,
                    result, dataUrl >>

\* one iteration that ends at line 196: the text fits
IterateFit ==
    /\ pc = "loop" /\ i < maxIterations
    /\ UNCHANGED loads
    /\ UNCHANGED restVars
    /\ Fits
    /\ IterationMeasures
    /\ pc' = "postloop"
    /\ UNCHANGED << canvasOk, ctxOk, engText, telText, imgW, imgH,
                    englishFontSize, teluguFontSize, i, totalActualTextHeight,
                    currentY2, warned, result, dataUrl >>
    /\ CanvasUnchanged

\* one iteration that ends at line 197: both sizes at the floor
IterateAtFloor ==
    /\ pc = "loop" /\ i < maxIterations
    /\ UNCHANGED loads
    /\ UNCHANGED restVars
    /\ ~Fits
    /\ BothAtFloor
    /\ IterationMeasures
    /\ pc' = "postloop"
    /\ UNCHANGED << canvasOk, ctxOk, engText, telText, imgW, imgH,
                    englishFontSize, teluguFontSize, i, totalActualTextHeight,
                    currentY2, warned, result, dataUrl >>
    /\ CanvasUnchanged

\* one iteration that runs to its end (lines 199-201) and the loop's i++
IterateShrink ==
    /\ pc = "loop" /\ i < maxIterations
    /\ UNCHANGED loads
    /\ UNCHANGED restVars
    /\ ~Fits
    /\ ~BothAtFloor
    /\ IterationMeasures
    /\ englishFontSize' = NextEnglishFontSize
    /\ teluguFontSize' = NextTeluguFontSize
    /\ warned' = (warned \/ i = maxIterations - 1)
    /\ i' = i + 1
    /\ pc' = IF i + 1 < maxIterations THEN "loop" ELSE "postloop"
    /\ UNCHANGED << canvasOk, ctxOk, engText, telText, imgW, imgH,
                    totalActualTextHeight, currentY2, result, dataUrl >>
    /\ CanvasUnchanged

---------------------------------------------------------------------------
(* After the loop: re-wrap, compositor, encoding *)

InputsUnchanged ==
    UNCHANGED << canvasOk, ctxOk, engText, telText, imgW, imgH >>

\* a mutant of PostLoopTeluguLines: the Telugu text wrapped at the English size
PostLoopTeluguLinesAtEnglishSize ==
    IF hasTelugu THEN wrapText(englishFontSize, telText, textMaxWidth)
    ELSE <<>>

\* lines 206-212
PostLoopEnglishLines == WrapEnglish

\* lines 213-219
PostLoopTeluguLines == WrapTelugu

\* lines 204-229: re-wrap at the settled sizes, total height, start, shadow
PostLoopWrap ==
    /\ pc = "postloop"
    /\ UNCHANGED loads
    /\ UNCHANGED restVars
    /\ englishLineHeight' = LineHeight(englishFontSize)
    /\ teluguLineHeight' = LineHeight(teluguFontSize)
    /\ englishLines' = PostLoopEnglishLines
    /\ englishBlockHeight' =
          Len(PostLoopEnglishLines) * LineHeight(englishFontSize)
    /\ teluguLines' = PostLoopTeluguLines
    /\ teluguBlockHeight' =
          Len(PostLoopTeluguLines) * LineHeight(teluguFontSize)
    /\ totalActualTextHeight' =
          Len(PostLoopEnglishLines) * LineHeight(englishFontSize)
          + (IF PaddingIncluded(PostLoopEnglishLines, PostLoopTeluguLines)
             THEN interTextPadding ELSE 0)
          + Len(PostLoopTeluguLines) * LineHeight(teluguFontSize)
    /\ currentY2' = Px(canvasH) - totalActualTextHeight'
    /\ shadowOn' = TRUE
    /\ pc' = "paintEnglish"
    /\ InputsUnchanged
    /\ UNCHANGED << canvasW, canvasH, background, painted, englishFontSize,
                    teluguFontSize, i, totalTextHeight, warned, result,
                    dataUrl >>

\* a mutant of LineY2: the lines of a block laid out upwards
LineY2Upwards(blockCentreY2, n, k, lineHeight) ==
    blockCentreY2 - (n - 1 + 2 * k) * lineHeight

\* 2 * (currentY - ((n - 1) / 2 - k) * lineHeight), k counted from 0
LineY2(blockCentreY2, n, k, lineHeight) ==
    blockCentreY2 - (n - 1 - 2 * k) * lineHeight

\* the strokeText + fillText calls of one block's for loop
BlockCalls(block, lines, fontSize, lineHeight, blockCentreY2) ==
    [k \in 1..Len(lines) |->
        [block |-> block, text |-> lines[k], fontSize |-> fontSize,
         x2 |-> textX2,
         y2 |-> LineY2(blockCentreY2, Len(lines), k - 1, lineHeight)]]

\* a mutant of AfterEnglishY2: the padding left out
AfterEnglishY2NoPadding == currentY2 + 2 * englishBlockHeight

\* 2 * currentY after line 243, currentY2 being the value before line 237
AfterEnglishY2 ==
    currentY2 + englishBlockHeight + englishBlockHeight
    + (IF hasTelugu /\ Len(teluguLines) > 0 THEN 2 * interTextPadding ELSE 0)

\* lines 231-246
PaintEnglishBlock ==
    /\ pc = "paintEnglish"
    /\ UNCHANGED loads
    /\ UNCHANGED restVars
    /\ IF hasEnglish /\ Len(englishLines) > 0
       THEN /\ painted' = painted \o
                  BlockCalls("english", englishLines, englishFontSize,
                             englishLineHeight, currentY2 + englishBlockHeight)
            /\ currentY2' = AfterEnglishY2
       ELSE IF hasTelugu /\ Len(teluguLines) > 0
            THEN /\ painted' = painted
                 /\ currentY2' = currentY2 + teluguBlockHeight
            ELSE UNCHANGED << painted, currentY2 >>
    /\ pc' = "paintTelugu"
    /\ InputsUnchanged
    /\ UNCHANGED << canvasW, canvasH, background, shadowOn, englishFontSize,
                    teluguFontSize, englishLines, teluguLines,
                    englishLineHeight, teluguLineHeight, englishBlockHeight,
                    teluguBlockHeight, i, totalTextHeight,
                    totalActualTextHeight, warned, result, dataUrl >>

\* 2 * currentY after lines 254-255
TeluguCentreY2 ==
    IF ~hasEnglish \/ Len(englishLines) = 0 THEN currentY2
    ELSE currentY2 + teluguBlockHeight

\* lines 248-262
PaintTeluguBlock ==
    /\ pc = "paintTelugu"
    /\ UNCHANGED loads
    /\ UNCHANGED restVars
    /\ IF hasTelugu /\ Len(teluguLines) > 0
       THEN /\ painted' = painted \o
                  BlockCalls("telugu", teluguLines, teluguFontSize,
                             teluguLineHeight, TeluguCentreY2)
            /\ currentY2' = TeluguCentreY2
       ELSE UNCHANGED << painted, currentY2 >>
    /\ pc' = "encode"
    /\ InputsUnchanged
    /\ UNCHANGED << canvasW, canvasH, background, shadowOn, englishFontSize,
                    teluguFontSize, englishLines, teluguLines,
                    englishLineHeight, teluguLineHeight, englishBlockHeight,
                    teluguBlockHeight, i, totalTextHeight,
                    totalActualTextHeight, warned, result, dataUrl >>

\* lines 264-269: shadow off, resolve(canvas.toDataURL('image/png'))
Resolve ==
    /\ pc = "encode"
    /\ UNCHANGED loads
    /\ UNCHANGED restVars
    /\ shadowOn' = FALSE
    /\ dataUrl' = << [width |-> canvasW, height |-> canvasH,
                      background |-> background, text |-> painted] >>
    /\ result' = "resolved"
    /\ pc' = "resolved"
    /\ InputsUnchanged
    /\ UNCHANGED << canvasW, canvasH, background, painted >>
    /\ LayoutUnchanged

---------------------------------------------------------------------------
(* The specification *)

\* the title of a session without title of its own: 'New Chat'
NewChat == << "N", "e", "w", " ", "C", "h", "a", "t" >>

\* the canvas element as the page creates it (no width or height attribute)
DefaultCanvasWidth == 300
DefaultCanvasHeight == 150

Init ==
    /\ pc = "idle"
    /\ canvasOk = TRUE /\ ctxOk = TRUE
    /\ engText = <<>> /\ telText = <<>>
    /\ imgW = 0 /\ imgH = 0
    /\ canvasW = DefaultCanvasWidth /\ canvasH = DefaultCanvasHeight
    /\ background = <<>>
    /\ englishFontSize = 0 /\ teluguFontSize = 0
    /\ englishLines = <<>> /\ teluguLines = <<>>
    /\ englishLineHeight = 0 /\ teluguLineHeight = 0
    /\ englishBlockHeight = 0 /\ teluguBlockHeight = 0
    /\ i = 0
    /\ totalTextHeight = 0 /\ totalActualTextHeight = 0
    /\ currentY2 = 0
    /\ painted = <<>>
    /\ shadowOn = FALSE
    /\ warned = FALSE
    /\ result = "pending"
    /\ dataUrl = <<>>
    /\ loads = 0
    /\ svcPc = "idle" /\ svcFn = "none"
    /\ svcPrompt = <<>> /\ svcPref = "both"
    /\ svcProvider = [kind |-> "none"] /\ svcResult = <<>>
    /\ calls = [c \in {1, 2} |->
                  [status |-> "none", eng |-> <<>>, tel |-> <<>>,
                   img |-> <<>>, url |-> <<>>]]
    /\ allSessions = << [id |-> 0, title |-> NewChat, items |-> <<>>,
                         createdAt |-> 0] >>
    /\ activeSessionId = 0
    /\ userPrompt = <<>>
    /\ isOverallLoading = FALSE
    /\ showLanguageModal = FALSE
    /\ pendingPrompt = <<>>
    /\ now = 0
    /\ gens = <<>>
    /\ lastDownload =
          [imageUrlToDownload |-> <<>>, originalUserQuery |-> <<>>,
           link |-> <<>>, called |-> FALSE]

Next ==
    \/ CallNoCanvas
    \/ CallNoContext
    \/ CallLoad
    \/ ImgOnError
    \/ \E img \in Images : ImgOnLoad(img[1], img[2])
    \/ IterateFit
    \/ IterateAtFloor
    \/ IterateShrink
    \/ PostLoopWrap
    \/ PaintEnglishBlock
    \/ PaintTeluguBlock
    \/ Resolve

Spec == Init /\ [][Next]_vars

\* the variables of a call of drawImageWithTextOverlay
overlayVars ==
    << pc, canvasOk, ctxOk, engText, telText, imgW, imgH, canvasW, canvasH,
       background, englishFontSize, teluguFontSize, englishLines, teluguLines,
       englishLineHeight, teluguLineHeight, englishBlockHeight,
       teluguBlockHeight, i, totalTextHeight, totalActualTextHeight,
       currentY2, painted, shadowOn, warned, result, dataUrl, loads >>

---------------------------------------------------------------------------
(* Strings of the services and of the App: sequences of characters *)

\* the string of n characters c
Chars(n, c) == [k \in 1..n |-> c]

\* s.trim() for a string of characters
RECURSIVE TrimStart(_)
TrimStart(s) ==
    IF s # <<>> /\ Head(s) = " " THEN TrimStart(Tail(s)) ELSE s
RECURSIVE TrimEnd(_)
TrimEnd(s) ==
    IF s # <<>> /\ s[Len(s)] = " "
    THEN TrimEnd(SubSeq(s, 1, Len(s) - 1)) ELSE s
TrimString(s) == TrimEnd(TrimStart(s))

\* s.substring(0, n)
Substring0(s, n) == SubSeq(s, 1, Min(n, Len(s)))

Quotes == {"\"", "'"}

\* title.replace(/^["']|["']$/g, ''): one quote off each end
StripQuotes(s) ==
    LET a == IF s # <<>> /\ Head(s) \in Quotes THEN Tail(s) ELSE s
    IN  IF a # <<>> /\ a[Len(a)] \in Quotes THEN SubSeq(a, 1, Len(a) - 1)
        ELSE a

---------------------------------------------------------------------------
(* services/geminiService.ts: messages *)

\* A message is a sequence of words; a message the code writes out in full
\* is one word.  message.includes(phrase), word by word:
Includes(message, phrase) ==
    \E k \in 1..(Len(message) - Len(phrase) + 1) :
        SubSeq(message, k, k + Len(phrase) - 1) = phrase

\* word.toLowerCase() for the words that differ from their lower case
LowerWord(w) ==
    CASE w = "API" -> "api"
      [] w = "Api" -> "api"
      [] w = "Key" -> "key"
      [] OTHER -> w
ToLowerCase(message) == [k \in DOMAIN message |-> LowerWord(message[k])]

\* the test of lines 199 and 233
IsApiKeyMessage(message) ==
    \/ Includes(message, << "API", "key", "not", "valid" >>)
    \/ Includes(message, << "API_KEY_INVALID" >>)
    \/ Includes(message, << "permission", "to", "access", "project" >>)
    \/ Includes(ToLowerCase(message), << "api", "key" >>)

InvalidApiKeyMessage ==
    << "Invalid or incorrectly configured Gemini API Key. Please check your key, its permissions, and ensure it's correctly set in the environment variables." >>
NotCorrectFormatMessage ==
    << "AI failed to provide poster content in the correct format. Try rephrasing your idea." >>
NotValidJsonMessage ==
    << "AI response for poster content was not valid JSON. Please try again." >>
ContentFailedPrefix ==
    << "Gemini API failed during creative content generation: " >>
ContentUnknownMessage ==
    << "An unknown error occurred while contacting the Gemini API for creative content generation." >>
NoImageMessage ==
    << "No image was generated by the API, or the response was empty." >>
ImageFailedPrefix == << "Gemini API failed during image generation: " >>
ImageUnknownMessage ==
    << "An unknown error occurred while contacting the Gemini API for image generation." >>

\* what a function does: it returns a value or throws
Returned(v) == [kind |-> "returned", value |-> v]
Threw(isError, message) ==
    [kind |-> "threw", isError |-> isError, message |-> message]


---------------------------------------------------------------------------
(* services/geminiService.ts: the three functions *)

\* summarizePromptForTitle(userPrompt), provider being what
\* ai.models.generateContent did (lines 27-67)
summarizePromptForTitle(prompt, provider) ==
    IF prompt = <<>> \/ Len(TrimString(prompt)) = 0
    THEN Returned(<<>>)
    ELSE IF provider.kind = "threw" THEN Returned(<<>>)
    ELSE Returned(StripQuotes(TrimString(provider.text)))

\* typeof v === 'string' for a value of the parsed JSON
IsString(v) == v.t = "string"

\* the three typeof tests of line 173
ExpectedShape(parsedData) ==
    /\ IsString(parsedData.theme)
    /\ IsString(parsedData.englishText)
    /\ IsString(parsedData.teluguText)

JsonString(s) == [t |-> "string", s |-> s]

\* a mutant of LanguageOverride: the two preferences exchanged
LanguageOverrideSwapped(languagePreference, parsedData) ==
    [parsedData EXCEPT
       !.teluguText = IF languagePreference = "telugu" THEN JsonString(<<>>)
                      ELSE @,
       !.englishText = IF languagePreference = "english" THEN JsonString(<<>>)
                       ELSE @]

\* lines 179-186
LanguageOverride(languagePreference, parsedData) ==
    [parsedData EXCEPT
       !.teluguText = IF languagePreference = "english" THEN JsonString(<<>>)
                      ELSE @,
       !.englishText = IF languagePreference = "telugu" THEN JsonString(<<>>)
                       ELSE @]

\* lines 163-169: the text the fence pattern leaves for JSON.parse
FenceStripped(text) ==
    IF text.fenced /\ text.json.t = "empty" THEN [t |-> "unparseable"]
    ELSE text.json

\* the body of the inner try (lines 172-190)
InnerTry(languagePreference, jsonStr) ==
    IF jsonStr.t \in {"unparseable", "empty"}
    THEN Threw(TRUE, << "SyntaxError" >>)
    ELSE IF jsonStr.t = "null"
    THEN Threw(TRUE, << "TypeError" >>)
    ELSE IF jsonStr.t # "object" \/ ~ExpectedShape(jsonStr)
    THEN Threw(TRUE, NotCorrectFormatMessage)
    ELSE Returned([theme |-> jsonStr.theme.s,
                   englishText |->
                       LanguageOverride(languagePreference, jsonStr).englishText.s,
                   teluguText |->
                       LanguageOverride(languagePreference, jsonStr).teluguText.s])

\* the inner catch (lines 191-194)
InnerCatch(outcome) ==
    IF outcome.kind = "threw" THEN Threw(TRUE, NotValidJsonMessage)
    ELSE outcome

\* a mutant of OuterCatch: every Error is taken for an API key error
OuterCatchAlwaysApiKey(outcome, failedPrefix, unknownMessage) ==
    IF outcome.kind # "threw" THEN outcome
    ELSE IF outcome.isError THEN Threw(TRUE, InvalidApiKeyMessage)
    ELSE Threw(TRUE, unknownMessage)

\* the outer catch (lines 196-205, and 230-239 of generateImageWithGemini)
OuterCatch(outcome, failedPrefix, unknownMessage) ==
    IF outcome.kind # "threw" THEN outcome
    ELSE IF outcome.isError
    THEN IF IsApiKeyMessage(outcome.message)
         THEN Threw(TRUE, InvalidApiKeyMessage)
         ELSE Threw(TRUE, failedPrefix \o outcome.message)
    ELSE Threw(TRUE, unknownMessage)

\* extractPosterDetailsFromPrompt(userPrompt, languagePreference), provider
\* being what ai.models.generateContent did (lines 70-206)
extractPosterDetailsFromPrompt(languagePreference, provider) ==
    OuterCatch(IF provider.kind = "threw" THEN provider
               ELSE InnerCatch(InnerTry(languagePreference,
                                        FenceStripped(provider))),
               ContentFailedPrefix, ContentUnknownMessage)

DataUrlPrefix == << "data:image/png;base64," >>

\* generateImageWithGemini(prompt), provider being what
\* ai.models.generateImages did (lines 209-240)
generateImageWithGemini(provider) ==
    OuterCatch(IF provider.kind = "threw" THEN provider
               ELSE IF provider.imageBytes # <<>>
               THEN Returned(DataUrlPrefix \o provider.imageBytes)
               ELSE Threw(TRUE, NoImageMessage),
               ImageFailedPrefix, ImageUnknownMessage)

---------------------------------------------------------------------------
(* One call of a service function *)

\* the length to which titles are cut (App.tsx lines 325, 353-357)
TitleLength == 40

\* prompts: empty, blank, short, longer than a title
Prompts ==
    { <<>>, << " " >>, << "u", "g", "a", "d", "i" >>,
      Chars(TitleLength + 1, "p") }

\* what the provider call can throw: Errors about the key or the project's
\* permissions,
AuthFailures ==
    { Threw(TRUE, << "400", "API", "key", "not", "valid" >>),
      Threw(TRUE, << "API_KEY_INVALID" >>),
      Threw(TRUE, << "403", "permission", "to", "access", "project", "denied" >>),
      Threw(TRUE, << "Missing", "Api", "Key" >>) }
\* other Errors, and a value that is no Error
GenericFailures ==
    { Threw(TRUE, << "503", "Service", "Unavailable" >>),
      Threw(TRUE, << "fetch", "failed" >>),
      Threw(FALSE, <<>>) }
ProviderFailures == AuthFailures \cup GenericFailures

\* response.text of the title request
SummaryTexts ==
    { <<>>, << " " >>, << "U", "g", "a", "d", "i" >>,
      << "\"", "U", "g", "a", "d", "i", "\"" >>,
      << " ", "U", "g", "a", "d", "i", " " >>, << "'" >> }
SummarizeProviders ==
    ProviderFailures \cup {[kind |-> "text", text |-> t] : t \in SummaryTexts}

\* the values of a field of the parsed JSON: strings, a number, no field
JsonValues(strings) ==
    {JsonString(s) : s \in strings} \cup {[t |-> "number"], [t |-> "undefined"]}
ThemeStrings == { <<>>, Chars(3, "v") }
EnglishStrings == { <<>>, Chars(5, "e"), Chars(TitleLength + 1, "e") }
TeluguStrings == { <<>>, Chars(5, "t"), Chars(TitleLength + 1, "t") }

\* what JSON.parse is given: text that is no JSON, nothing, null, a number,
\* an object
JsonTexts ==
    { [t |-> "unparseable"], [t |-> "empty"], [t |-> "null"], [t |-> "number"] }
    \cup [t : {"object"}, theme : JsonValues(ThemeStrings),
          englishText : JsonValues(EnglishStrings),
          teluguText : JsonValues(TeluguStrings)]
\* response.text of the content request, with or without a code fence
ExtractProviders ==
    ProviderFailures
    \cup {[kind |-> "text", fenced |-> f, json |-> j] :
              f \in BOOLEAN, j \in JsonTexts}

ImageProviders ==
    ProviderFailures
    \cup {[kind |-> "images", imageBytes |-> b] : b \in {<<>>, << "iVBOR" >>}}

LanguagePreferences == {"english", "telugu", "both"}

OverlayIdle == UNCHANGED << overlayVars, calls, appVars >>

\* summarizePromptForTitle called with a prompt that is empty or blank
\* (lines 28-30)
SummarizeBlank ==
    /\ svcPc = "idle"
    /\ \E p \in Prompts :
          /\ Len(TrimString(p)) = 0
          /\ svcPrompt' = p
          /\ svcResult' = summarizePromptForTitle(p, svcProvider)
    /\ svcFn' = "summarize"
    /\ svcPc' = "returned"
    /\ UNCHANGED << svcPref, svcProvider >>
    /\ OverlayIdle

\* summarizePromptForTitle up to its await (lines 31-54)
CallSummarize ==
    /\ svcPc = "idle"
    /\ \E p \in Prompts : Len(TrimString(p)) > 0 /\ svcPrompt' = p
    /\ svcFn' = "summarize"
    /\ svcPc' = "awaiting"
    /\ UNCHANGED << svcPref, svcProvider, svcResult >>
    /\ OverlayIdle

\* ... and from the await on (lines 56-66)
SummarizeSettles ==
    /\ svcPc = "awaiting" /\ svcFn = "summarize"
    /\ \E provider \in SummarizeProviders :
          /\ svcProvider' = provider
          /\ svcResult' = summarizePromptForTitle(svcPrompt, provider)
    /\ svcPc' = svcResult'.kind
    /\ UNCHANGED << svcFn, svcPrompt, svcPref >>
    /\ OverlayIdle

\* extractPosterDetailsFromPrompt up to its await (lines 70-160)
CallExtract ==
    /\ svcPc = "idle"
    /\ \E p \in Prompts : Len(TrimString(p)) > 0 /\ svcPrompt' = p
    /\ \E pref \in LanguagePreferences : svcPref' = pref
    /\ svcFn' = "extract"
    /\ svcPc' = "awaiting"
    /\ UNCHANGED << svcProvider, svcResult >>
    /\ OverlayIdle

\* ... and from the await on (lines 162-205)
ExtractSettles ==
    /\ svcPc = "awaiting" /\ svcFn = "extract"
    /\ \E provider \in ExtractProviders :
          /\ svcProvider' = provider
          /\ svcResult' = extractPosterDetailsFromPrompt(svcPref, provider)
    /\ svcPc' = svcResult'.kind
    /\ UNCHANGED << svcFn, svcPrompt, svcPref >>
    /\ OverlayIdle

\* generateImageWithGemini up to its await (lines 209-219)
CallImage ==
    /\ svcPc = "idle"
    /\ svcFn' = "image"
    /\ svcPc' = "awaiting"
    /\ UNCHANGED << svcPrompt, svcPref, svcProvider, svcResult >>
    /\ OverlayIdle

\* ... and from the await on (lines 220-239)
ImageSettles ==
    /\ svcPc = "awaiting" /\ svcFn = "image"
    /\ \E provider \in ImageProviders :
          /\ svcProvider' = provider
          /\ svcResult' = generateImageWithGemini(provider)
    /\ svcPc' = svcResult'.kind
    /\ UNCHANGED << svcFn, svcPrompt, svcPref >>
    /\ OverlayIdle

ServiceNext ==
    \/ SummarizeBlank
    \/ CallSummarize
    \/ SummarizeSettles
    \/ CallExtract
    \/ ExtractSettles
    \/ CallImage
    \/ ImageSettles

\* one call of one function of the service
SpecService == Init /\ [][ServiceNext]_vars

---------------------------------------------------------------------------
(* Two calls of drawImageWithTextOverlay in flight on the shared canvas *)

CallIds == {1, 2}

\* the texts of the two calls: none, one word, the longest text of wide words
TwoTexts == { <<>>, << 100 >>, [k \in 1..MaxWords |-> 300] }

\* a load or error callback is running: the body of img.onload has no await,
\* so it runs from its first line to resolve() before any other callback
HandlerRunning ==
    pc \in {"loop", "postloop", "paintEnglish", "paintTelugu", "encode"}

\* both calls have been made
BothCalled == \A c \in CallIds : calls[c].status # "none"

\* a mutant of ClosureTexts: the texts of the other call
OtherCallTexts(c) == << calls[3 - c].eng, calls[3 - c].tel >>

\* engText and telText as the callbacks of call c see them (line 128)
ClosureTexts(c) == << calls[c].eng, calls[c].tel >>

\* call c up to img.src = baseImageUrl (lines 129-142, 275)
TwoCall(c) ==
    /\ calls[c].status = "none"
    /\ ~HandlerRunning
    /\ \E eng \in TwoTexts, tel \in TwoTexts, img \in Images :
          calls' = [calls EXCEPT ![c] =
                      [status |-> "loading", eng |-> eng, tel |-> tel,
                       img |-> img, url |-> <<>>]]
    /\ loads' = loads + 1
    /\ UNCHANGED << pc, canvasOk, ctxOk, engText, telText, imgW, imgH,
                    result, dataUrl >>
    /\ CanvasUnchanged /\ LayoutUnchanged
    /\ UNCHANGED << serviceVars, appVars >>

\* img.onerror of call c (lines 271-274)
TwoOnError(c) ==
    /\ BothCalled
    /\ calls[c].status = "loading"
    /\ ~HandlerRunning
    /\ calls' = [calls EXCEPT ![c].status = "rejected"]
    /\ UNCHANGED overlayVars
    /\ UNCHANGED << serviceVars, appVars >>

\* img.onload of call c up to the loop (lines 143-169)
TwoOnLoad(c) ==
    /\ BothCalled
    /\ calls[c].status = "loading"
    /\ ~HandlerRunning
    /\ calls' = [calls EXCEPT ![c].status = "running"]
    /\ engText' = ClosureTexts(c)[1] /\ telText' = ClosureTexts(c)[2]
    /\ imgW' = calls[c].img[1] /\ imgH' = calls[c].img[2]
    /\ canvasW' = calls[c].img[1] /\ canvasH' = calls[c].img[2]
    /\ background' = calls[c].img
    /\ painted' = <<>>
    /\ shadowOn' = FALSE
    /\ englishFontSize' = InitialEnglishFontSize(calls[c].img[1], calls[c].img[2])
    /\ teluguFontSize' = InitialTeluguFontSize(calls[c].img[1], calls[c].img[2])
    /\ englishLines' = <<>> /\ teluguLines' = <<>>
    /\ englishLineHeight' = 0 /\ teluguLineHeight' = 0
    /\ englishBlockHeight' = 0 /\ teluguBlockHeight' = 0
    /\ totalTextHeight' = 0 /\ totalActualTextHeight' = 0
    /\ currentY2' = 0
    /\ warned' = FALSE
    /\ i' = 0
    /\ result' = "pending" /\ dataUrl' = <<>>
    /\ pc' = "loop"
    /\ UNCHANGED << canvasOk, ctxOk, loads >>
    /\ UNCHANGED << serviceVars, appVars >>

\* lines 264-269 in the callback of the call that is running
TwoResolve ==
    /\ pc = "encode"
    /\ \E c \in CallIds :
          /\ calls[c].status = "running"
          /\ calls' = [calls EXCEPT
                         ![c].status = "resolved",
                         ![c].url = << [width |-> canvasW, height |-> canvasH,
                                        background |-> background,
                                        text |-> painted] >>]
    /\ shadowOn' = FALSE
    /\ dataUrl' = << [width |-> canvasW, height |-> canvasH,
                      background |-> background, text |-> painted] >>
    /\ result' = "resolved"
    /\ pc' = "resolved"
    /\ InputsUnchanged
    /\ UNCHANGED << canvasW, canvasH, background, painted, loads >>
    /\ LayoutUnchanged
    /\ UNCHANGED << serviceVars, appVars >>

TwoNext ==
    \/ \E c \in CallIds : TwoCall(c)
    \/ \E c \in CallIds : TwoOnError(c)
    \/ \E c \in CallIds : TwoOnLoad(c)
    \/ IterateFit
    \/ IterateAtFloor
    \/ IterateShrink
    \/ PostLoopWrap
    \/ PaintEnglishBlock
    \/ PaintTeluguBlock
    \/ TwoResolve

\* two calls in flight at once, their callbacks in either order
SpecTwo == Init /\ [][TwoNext]_vars

---------------------------------------------------------------------------
(* App.tsx: sessions, items and the user's actions *)

\* most calls of proceedWithGeneration in a behaviour
MaxGenerations == 2
\* most readings of Date.now() for a new session or a new generation
MaxClock == 3

\* s.substring(0, 40) + (s.length > 40 ? '...' : '')
TruncatedTitle(s) ==
    Substring0(s, TitleLength)
    \o (IF Len(s) > TitleLength THEN << ".", ".", "." >> ELSE <<>>)

\* .sort((a, b) => b.createdAt - a.createdAt): newest first, stable
RECURSIVE InsertByCreatedAt(_, _)
InsertByCreatedAt(session, sorted) ==
    IF sorted = <<>> THEN << session >>
    ELSE IF session.createdAt >= Head(sorted).createdAt
         THEN << session >> \o sorted
         ELSE << Head(sorted) >> \o InsertByCreatedAt(session, Tail(sorted))
RECURSIVE SortByCreatedAt(_)
SortByCreatedAt(sessions) ==
    IF sessions = <<>> THEN <<>>
    ELSE InsertByCreatedAt(Head(sessions), SortByCreatedAt(Tail(sessions)))

SessionIds(sessions) == {sessions[k].id : k \in DOMAIN sessions}

\* allSessions.find(s => s.id === sessionId), where there is one
FindSession(sessions, sessionId) ==
    sessions[CHOOSE k \in DOMAIN sessions :
                 /\ sessions[k].id = sessionId
                 /\ \A j \in 1..(k - 1) : sessions[j].id # sessionId]

\* a mutant of updateSessionItems: the active session is the one updated
updateActiveSessionItems(sessions, sessionId, updatedItems) ==
    SortByCreatedAt(
        [k \in DOMAIN sessions |->
            IF sessions[k].id = activeSessionId
            THEN [sessions[k] EXCEPT !.items = updatedItems[k]]
            ELSE sessions[k]])

\* updateSessionItems (lines 281-287), updatedItems[k] being what updateFn
\* gives for the items of sessions[k]
updateSessionItems(sessions, sessionId, updatedItems) ==
    SortByCreatedAt(
        [k \in DOMAIN sessions |->
            IF sessions[k].id = sessionId
            THEN [sessions[k] EXCEPT !.items = updatedItems[k]]
            ELSE sessions[k]])

\* updateSessionTitle (lines 289-295)
updateSessionTitle(sessions, sessionId, newTitle) ==
    SortByCreatedAt(
        [k \in DOMAIN sessions |->
            IF sessions[k].id = sessionId
            THEN [sessions[k] EXCEPT !.title = newTitle]
            ELSE sessions[k]])

\* a session as lines 73, 442-447 and 472-477 create it
NewSession(t) == [id |-> t, title |-> NewChat, items |-> <<>>, createdAt |-> t]

\* the items of lines 309-310; a field the item does not have is <<>> or ""
UserMessage(t, promptToGenerate) ==
    [id |-> << "user", t >>, type |-> "userPrompt",
     promptText |-> << promptToGenerate >>, imageUrl |-> <<>>,
     isLoading |-> FALSE, loadingStep |-> "", errorText |-> <<>>,
     originalUserQuery |-> <<>>]
AiInitialMessage(t, promptToGenerate) ==
    [id |-> << "ai", t >>, type |-> "aiResponse",
     promptText |-> <<>>, imageUrl |-> <<>>,
     isLoading |-> TRUE, loadingStep |-> "Analyzing your idea...",
     errorText |-> <<>>, originalUserQuery |-> << promptToGenerate >>]

\* the prompt box is disabled (isLoading of PromptInput, App.tsx line 524)
PromptDisabled == isOverallLoading \/ showLanguageModal

\* canSubmit of PromptInput (PromptInput.tsx line 75)
canSubmit == ~PromptDisabled /\ TrimString(userPrompt) # <<>>

\* what the handlers of the prompt, the sessions and the generations leave
\* alone
OutsideApp == UNCHANGED << overlayVars, serviceVars, calls, lastDownload >>

\* what the user types in the App's runs
AppPrompts == { <<>>, << " " >>, << "u", "g", "a", "d", "i" >> }

\* the user edits the prompt (PromptInput.tsx line 184)
TypePrompt ==
    /\ ~PromptDisabled
    /\ \E p \in AppPrompts : p # userPrompt /\ userPrompt' = p
    /\ UNCHANGED << allSessions, activeSessionId, isOverallLoading,
                    showLanguageModal, pendingPrompt, now >>
    /\ UNCHANGED gens /\ OutsideApp

\* Enter or the send button, then handleInitiateGeneration (lines 394-400)
handleInitiateGeneration ==
    /\ canSubmit
    /\ IF TrimString(userPrompt) = <<>> \/ isOverallLoading
       THEN UNCHANGED << pendingPrompt, showLanguageModal >>
       ELSE pendingPrompt' = userPrompt /\ showLanguageModal' = TRUE
    /\ UNCHANGED << allSessions, activeSessionId, userPrompt,
                    isOverallLoading, now >>
    /\ UNCHANGED gens /\ OutsideApp

\* a mutant of handleCloseLanguageModal: the pending prompt is kept
handleCloseLanguageModalKeepingPrompt ==
    /\ showLanguageModal
    /\ showLanguageModal' = FALSE
    /\ UNCHANGED << allSessions, activeSessionId, userPrompt, pendingPrompt,
                    isOverallLoading, now >>
    /\ UNCHANGED gens /\ OutsideApp

\* the close button of the modal (lines 413-416)
handleCloseLanguageModal ==
    /\ showLanguageModal
    /\ showLanguageModal' = FALSE
    /\ pendingPrompt' = <<>>
    /\ UNCHANGED << allSessions, activeSessionId, userPrompt,
                    isOverallLoading, now >>
    /\ UNCHANGED gens /\ OutsideApp

\* the sidebar can be clicked: the open modal covers the whole page
SidebarReachable == ~showLanguageModal

\* handleNewSession (lines 430-453)
handleNewSession ==
    /\ SidebarReachable
    /\ IF /\ activeSessionId \in SessionIds(allSessions)
          /\ FindSession(allSessions, activeSessionId).items = <<>>
          /\ FindSession(allSessions, activeSessionId).title = NewChat
       THEN UNCHANGED << allSessions, activeSessionId, now >>
       ELSE /\ now < MaxClock
            /\ now' = now + 1
            /\ allSessions' =
                  SortByCreatedAt(<< NewSession(now + 1) >> \o allSessions)
            /\ activeSessionId' = now + 1
    /\ userPrompt' = <<>>
    /\ isOverallLoading' = FALSE
    /\ UNCHANGED << showLanguageModal, pendingPrompt >>
    /\ UNCHANGED gens /\ OutsideApp

\* handleSelectSession (lines 455-465)
handleSelectSession(sessionId) ==
    /\ SidebarReachable
    /\ activeSessionId' = sessionId
    /\ userPrompt' = <<>>
    /\ isOverallLoading' = FALSE
    /\ UNCHANGED << allSessions, showLanguageModal, pendingPrompt, now >>
    /\ UNCHANGED gens /\ OutsideApp

\* allSessions.filter(s => s.id !== sessionIdToDelete)
RemainingSessions(sessionIdToDelete) ==
    SelectSeq(allSessions, LAMBDA session : session.id # sessionIdToDelete)

\* a mutant of handleDeleteSession: the active session is not replaced
handleDeleteSessionKeepingActive(sessionIdToDelete) ==
    /\ SidebarReachable
    /\ IF RemainingSessions(sessionIdToDelete) = <<>>
       THEN /\ now < MaxClock
            /\ now' = now + 1
            /\ allSessions' = << NewSession(now + 1) >>
            /\ activeSessionId' = now + 1
       ELSE /\ allSessions' =
                  SortByCreatedAt(RemainingSessions(sessionIdToDelete))
            /\ UNCHANGED << activeSessionId, now >>
    /\ userPrompt' = <<>>
    /\ isOverallLoading' = FALSE
    /\ UNCHANGED << showLanguageModal, pendingPrompt >>
    /\ UNCHANGED gens /\ OutsideApp

\* handleDeleteSession (lines 467-488)
handleDeleteSession(sessionIdToDelete) ==
    /\ SidebarReachable
    /\ IF RemainingSessions(sessionIdToDelete) = <<>>
       THEN /\ now < MaxClock
            /\ now' = now + 1
            /\ allSessions' = << NewSession(now + 1) >>
            /\ activeSessionId' = now + 1
       ELSE /\ allSessions' =
                  SortByCreatedAt(RemainingSessions(sessionIdToDelete))
            /\ activeSessionId' =
                  IF activeSessionId = sessionIdToDelete
                  THEN SortByCreatedAt(RemainingSessions(sessionIdToDelete))[1].id
                  ELSE activeSessionId
            /\ UNCHANGED now
    /\ userPrompt' = <<>>
    /\ isOverallLoading' = FALSE
    /\ UNCHANGED << showLanguageModal, pendingPrompt >>
    /\ UNCHANGED gens /\ OutsideApp

---------------------------------------------------------------------------
(* App.tsx: proceedWithGeneration *)

\* what the providers and the composition do in the App's runs
AppSummarizeProviders ==
    { Threw(TRUE, << "fetch", "failed" >>),
      [kind |-> "text", text |-> << "U", "g", "a", "d", "i" >>] }
AppExtractProviders ==
    { Threw(TRUE, << "fetch", "failed" >>) }
    \cup {[kind |-> "text", fenced |-> FALSE,
           json |-> [t |-> "object", theme |-> JsonString(d[1]),
                     englishText |-> JsonString(d[2]),
                     teluguText |-> JsonString(d[3])]] :
             d \in { << Chars(3, "v"), Chars(TitleLength + 1, "e"), Chars(5, "t") >>,
                     << Chars(3, "v"), <<>>, Chars(5, "t") >>,
                     << <<>>, Chars(5, "e"), <<>> >> }}
AppImageProviders ==
    { Threw(TRUE, << "fetch", "failed" >>),
      [kind |-> "images", imageBytes |-> << "iVBOR" >>] }
\* how the promise of drawImageWithTextOverlay settles (lines 269 and 273)
ComposeOutcomes ==
    { Returned(<< "poster" >>),
      Threw(TRUE, << "Failed to load base image." >>) }

NoThemeMessage ==
    << "Could not determine a theme from your prompt. Please try rephrasing more clearly about the visual style." >>
NoBackgroundMessage ==
    << "The AI failed to generate a background image. Try simplifying your theme or try again later." >>

\* a mutant of AppendItems: the aiResponse item first
AppendItemsAiFirst(sessions, sessionId, t, promptToGenerate) ==
    updateSessionItems(sessions, sessionId,
        [k \in DOMAIN sessions |->
            sessions[k].items \o << AiInitialMessage(t, promptToGenerate),
                                    UserMessage(t, promptToGenerate) >>])

\* lines 332-341
AppendItems(sessions, sessionId, t, promptToGenerate) ==
    updateSessionItems(sessions, sessionId,
        [k \in DOMAIN sessions |->
            sessions[k].items \o << UserMessage(t, promptToGenerate),
                                    AiInitialMessage(t, promptToGenerate) >>])

\* {...item, ...changes}
Spread(item, changes) ==
    [field \in DOMAIN item |->
        IF field \in DOMAIN changes THEN changes[field] ELSE item[field]]

\* items.map(item => item.id === aiResponseId ? {...item, ...changes} : item)
MapAiItem(sessions, sessionId, t, changes) ==
    updateSessionItems(sessions, sessionId,
        [k \in DOMAIN sessions |->
            [m \in DOMAIN sessions[k].items |->
                IF sessions[k].items[m].id = << "ai", t >>
                THEN Spread(sessions[k].items[m], changes)
                ELSE sessions[k].items[m]]])

\* a mutant of SetLoadingStep: the first step is set again
SetLoadingStepAnalyzing(sessions, sessionId, t, step) ==
    MapAiItem(sessions, sessionId, t, [loadingStep |-> "Analyzing your idea..."])

\* lines 346 and 376
SetLoadingStep(sessions, sessionId, t, step) ==
    MapAiItem(sessions, sessionId, t, [loadingStep |-> step])

\* errorMessage of line 383
ErrorMessage(err) ==
    IF err.isError THEN << "Failed to create poster: " >> \o err.message
    ELSE << "An unknown error occurred." >>

\* a mutant of ErrorUpdate: the item keeps loading
ErrorUpdateStillLoading(err) ==
    [errorText |-> << ErrorMessage(err) >>, imageUrl |-> <<>>]

\* the item update of line 384
ErrorUpdate(err) ==
    [isLoading |-> FALSE, errorText |-> << ErrorMessage(err) >>,
     imageUrl |-> <<>>]

\* the catch and the finally (lines 381-389) of call g, sessions being the
\* sessions as the try block left them
CatchFinally(g, sessions, err) ==
    /\ allSessions' =
          MapAiItem(sessions, gens[g].sessionId, gens[g].t, ErrorUpdate(err))
    /\ isOverallLoading' = FALSE
    /\ pendingPrompt' = <<>>
    /\ gens' = [gens EXCEPT ![g].pc = "done",
                            ![g].error = << ErrorMessage(err) >>]

\* the frame of a call of proceedWithGeneration at its first await
Frame(promptToGenerate, langPref, t, summarize) ==
    [pc |-> IF summarize THEN "summarizing" ELSE "extracting",
     promptToGenerate |-> promptToGenerate, langPref |-> langPref,
     sessionId |-> activeSessionId,
     sessionFound |-> activeSessionId \in SessionIds(allSessions),
     sessionTitle |->
         IF activeSessionId \in SessionIds(allSessions)
         THEN FindSession(allSessions, activeSessionId).title ELSE <<>>,
     t |-> t, summarized |-> << >>, titleUpdatedBySummarization |-> FALSE,
     posterDetails |-> <<>>, baseImageUrl |-> <<>>, error |-> <<>>]

\* the test of line 315
SummarizesTitle(promptToGenerate) ==
    /\ activeSessionId \in SessionIds(allSessions)
    /\ FindSession(allSessions, activeSessionId).title = NewChat
    /\ TrimString(promptToGenerate) # <<>>

\* proceedWithGeneration up to its first await (lines 297-317, 332-345)
proceedWithGeneration(promptToGenerate, langPref) ==
    IF TrimString(promptToGenerate) = <<>>
    THEN /\ isOverallLoading' = FALSE
         /\ UNCHANGED << allSessions, now, gens >>
    ELSE /\ Len(gens) < MaxGenerations /\ now < MaxClock
         /\ now' = now + 1
         /\ isOverallLoading' = TRUE
         /\ gens' = Append(gens, Frame(promptToGenerate, langPref, now + 1,
                                       SummarizesTitle(promptToGenerate)))
         /\ allSessions' =
               IF SummarizesTitle(promptToGenerate) THEN allSessions
               ELSE AppendItems(allSessions, activeSessionId, now + 1,
                                promptToGenerate)

\* a language button of the modal: handleLanguageSelected (lines 402-411)
handleLanguageSelected(selectedPreference) ==
    /\ showLanguageModal
    /\ showLanguageModal' = FALSE
    /\ userPrompt' = <<>>
    /\ IF pendingPrompt # <<>>
       THEN proceedWithGeneration(pendingPrompt, selectedPreference)
       ELSE /\ isOverallLoading' = FALSE
            /\ UNCHANGED << allSessions, now, gens >>
    /\ UNCHANGED << activeSessionId, pendingPrompt >>
    /\ OutsideApp

\* the session title after lines 317-328, outcome being what
\* summarizePromptForTitle did
TitleAfterSummary(g, outcome) ==
    IF outcome.kind = "threw"
    THEN updateSessionTitle(allSessions, gens[g].sessionId,
                            TruncatedTitle(gens[g].promptToGenerate))
    ELSE IF outcome.value # <<>> /\ TrimString(outcome.value) # <<>>
    THEN updateSessionTitle(allSessions, gens[g].sessionId,
                            TrimString(outcome.value))
    ELSE allSessions

\* call g from the await of line 317 to the await of line 345
SummaryReturns(g) ==
    /\ gens[g].pc = "summarizing"
    /\ \E provider \in AppSummarizeProviders :
         LET outcome ==
                 summarizePromptForTitle(gens[g].promptToGenerate, provider)
         IN  /\ allSessions' =
                   AppendItems(TitleAfterSummary(g, outcome),
                               gens[g].sessionId, gens[g].t,
                               gens[g].promptToGenerate)
             /\ gens' = [gens EXCEPT
                  ![g].pc = "extracting",
                  ![g].summarized = << outcome >>,
                  ![g].titleUpdatedBySummarization =
                      /\ outcome.kind = "returned"
                      /\ outcome.value # <<>>
                      /\ TrimString(outcome.value) # <<>>]
    /\ UNCHANGED << activeSessionId, userPrompt, isOverallLoading,
                    showLanguageModal, pendingPrompt, now >>
    /\ OutsideApp

\* the test of line 353, on the sessions the call started with
TextTitleWanted(g) ==
    /\ gens[g].sessionFound
    /\ \/ ~gens[g].titleUpdatedBySummarization
       \/ gens[g].sessionTitle = NewChat
       \/ gens[g].sessionTitle = TruncatedTitle(gens[g].promptToGenerate)

\* lines 352-359
TitleAfterDetails(g, sessions, posterDetails) ==
    IF ~TextTitleWanted(g) THEN sessions
    ELSE IF posterDetails.englishText # <<>>
    THEN updateSessionTitle(sessions, gens[g].sessionId,
                            TruncatedTitle(posterDetails.englishText))
    ELSE IF posterDetails.teluguText # <<>>
    THEN updateSessionTitle(sessions, gens[g].sessionId,
                            TruncatedTitle(posterDetails.teluguText))
    ELSE sessions

\* call g from the await of line 345 to the await of line 372, or to its end
DetailsReturn(g) ==
    /\ gens[g].pc = "extracting"
    /\ \E provider \in AppExtractProviders :
         LET outcome ==
                 extractPosterDetailsFromPrompt(gens[g].langPref, provider)
             stepped ==
                 SetLoadingStep(allSessions, gens[g].sessionId, gens[g].t,
                                "Creating background image...")
         IN  IF outcome.kind = "threw"
             THEN CatchFinally(g, allSessions, outcome)
             ELSE IF outcome.value.theme = <<>>
             THEN CatchFinally(g, stepped, Threw(TRUE, NoThemeMessage))
             ELSE /\ allSessions' = TitleAfterDetails(g, stepped, outcome.value)
                  /\ gens' = [gens EXCEPT ![g].pc = "imaging",
                                          ![g].posterDetails = << outcome.value >>]
                  /\ UNCHANGED << isOverallLoading, pendingPrompt >>
    /\ UNCHANGED << activeSessionId, userPrompt, showLanguageModal, now >>
    /\ OutsideApp

\* call g from the await of line 372 to the await of line 378, or to its end
ImageReturns(g) ==
    /\ gens[g].pc = "imaging"
    /\ \E provider \in AppImageProviders :
         LET outcome == generateImageWithGemini(provider)
         IN  IF outcome.kind = "threw"
             THEN CatchFinally(g, allSessions, outcome)
             ELSE IF outcome.value = <<>>
             THEN CatchFinally(g, allSessions, Threw(TRUE, NoBackgroundMessage))
             ELSE /\ allSessions' =
                        SetLoadingStep(allSessions, gens[g].sessionId,
                                       gens[g].t, "Adding text to your poster...")
                  /\ gens' = [gens EXCEPT ![g].pc = "composing",
                                          ![g].baseImageUrl = outcome.value]
                  /\ UNCHANGED << isOverallLoading, pendingPrompt >>
    /\ UNCHANGED << activeSessionId, userPrompt, showLanguageModal, now >>
    /\ OutsideApp

\* the item update of line 379
ImageUpdate(finalImageUrl) ==
    [isLoading |-> FALSE, imageUrl |-> << finalImageUrl >>, errorText |-> <<>>]

\* call g from the await of line 378 to its end
CompositionSettles(g) ==
    /\ gens[g].pc = "composing"
    /\ \E outcome \in ComposeOutcomes :
         IF outcome.kind = "threw"
         THEN CatchFinally(g, allSessions, outcome)
         ELSE /\ allSessions' =
                    MapAiItem(allSessions, gens[g].sessionId, gens[g].t,
                        ImageUpdate(outcome.value \o gens[g].baseImageUrl))
              /\ isOverallLoading' = FALSE
              /\ pendingPrompt' = <<>>
              /\ gens' = [gens EXCEPT ![g].pc = "done"]
    /\ UNCHANGED << activeSessionId, userPrompt, showLanguageModal, now >>
    /\ OutsideApp

AppNext ==
    \/ TypePrompt
    \/ handleInitiateGeneration
    \/ handleCloseLanguageModal
    \/ \E pref \in LanguagePreferences : handleLanguageSelected(pref)
    \/ handleNewSession
    \/ \E sessionId \in SessionIds(allSessions) : handleSelectSession(sessionId)
    \/ \E sessionId \in SessionIds(allSessions) : handleDeleteSession(sessionId)
    \/ \E g \in DOMAIN gens : SummaryReturns(g)
    \/ \E g \in DOMAIN gens : DetailsReturn(g)
    \/ \E g \in DOMAIN gens : ImageReturns(g)
    \/ \E g \in DOMAIN gens : CompositionSettles(g)

\* the App under the user's actions and the providers' answers
SpecApp == Init /\ [][AppNext]_vars

---------------------------------------------------------------------------
(* App.tsx: handleDownloadImageForItem *)

\* a character is a string: itself for an ASCII character, the name of its
\* code point for the others (U+017F is the long s, whose upper case is S;
\* U+212A is the Kelvin sign, whose lower case is k; U+0C24 is a Telugu
\* letter)
LowerLetters ==
    << "a", "b", "c", "d", "e", "f", "g", "h", "i", "j", "k", "l", "m",
       "n", "o", "p", "q", "r", "s", "t", "u", "v", "w", "x", "y", "z" >>
UpperLetters ==
    << "A", "B", "C", "D", "E", "F", "G", "H", "I", "J", "K", "L", "M",
       "N", "O", "P", "Q", "R", "S", "T", "U", "V", "W", "X", "Y", "Z" >>
Digits == { "0", "1", "2", "3", "4", "5", "6", "7", "8", "9" }
NonAscii == { "U+017F", "U+212A", "U+0C24" }

LetterIndex(letters, c) == CHOOSE k \in DOMAIN letters : letters[k] = c

\* String.prototype.toUpperCase on one character
CharToUpperCase(c) ==
    IF \E k \in DOMAIN LowerLetters : LowerLetters[k] = c
    THEN UpperLetters[LetterIndex(LowerLetters, c)]
    ELSE IF c = "U+017F" THEN "S"
    ELSE c

\* String.prototype.toLowerCase on one character
CharToLowerCase(c) ==
    IF \E k \in DOMAIN UpperLetters : UpperLetters[k] = c
    THEN LowerLetters[LetterIndex(UpperLetters, c)]
    ELSE IF c = "U+212A" THEN "k"
    ELSE c

\* Canonicalize of a regular expression with the i flag and without the u
\* flag: the upper case, unless it would turn a non-ASCII character into an
\* ASCII one
Canonicalize(c) ==
    IF c \in NonAscii /\ CharToUpperCase(c) \notin NonAscii THEN c
    ELSE CharToUpperCase(c)

\* the characters of the class [a-z0-9]
ClassAZ09 == { LowerLetters[k] : k \in DOMAIN LowerLetters } \cup Digits

\* c matches /[^a-z0-9]/i
MatchesNotAZ09(c) ==
    \A x \in ClassAZ09 : Canonicalize(x) # Canonicalize(c)

\* a mutant of ReplaceNotAZ09: the regular expression without its i flag
ReplaceNotAZ09CaseSensitive(s) ==
    [k \in DOMAIN s |-> IF s[k] \notin ClassAZ09 THEN "_" ELSE s[k]]

\* .replace(/[^a-z0-9]/gi, '_')
ReplaceNotAZ09(s) ==
    [k \in DOMAIN s |-> IF MatchesNotAZ09(s[k]) THEN "_" ELSE s[k]]

\* .toLowerCase()
StringToLowerCase(s) == [k \in DOMAIN s |-> CharToLowerCase(s[k])]

PromptStartLength == 30

\* a value JavaScript takes as false: undefined, null or the empty string
Falsy(optional) == optional = <<>> \/ optional[1] = <<>>

\* promptStart of line 423
promptStart(originalUserQuery) ==
    IF Falsy(originalUserQuery)
    THEN << "a", "i", "_", "p", "o", "s", "t", "e", "r" >>
    ELSE StringToLowerCase(
             ReplaceNotAZ09(Substring0(originalUserQuery[1], PromptStartLength)))

PosterSuffix == << "_", "p", "o", "s", "t", "e", "r", ".", "p", "n", "g" >>

\* the queries of the model: every string of at most MaxQuery characters of
\* DownloadChars, and strings of one character more than PromptStartLength
MaxQuery == 3
DownloadChars == { "a", "B", "7", "-", " ", "U+017F", "U+212A" }
DownloadQueries ==
    (UNION {[1..n -> DownloadChars] : n \in 0..MaxQuery})
    \cup { Chars(PromptStartLength - 1, c[1]) \o << c[2], c[3] >> :
             c \in DownloadChars \X DownloadChars \X DownloadChars }
DownloadUrls ==
    { <<>>, << <<>> >>, << << "data:image/png;base64,", "poster" >> >> }

\* no call of handleDownloadImageForItem was made yet
NoDownloadYet ==
    lastDownload = [imageUrlToDownload |-> <<>>, originalUserQuery |-> <<>>,
                    link |-> <<>>, called |-> FALSE]

\* handleDownloadImageForItem (lines 419-428): link is the anchor clicked.
\* The handler reads no state, so that a run holds one call of it.
handleDownloadImageForItem(imageUrlToDownload, originalUserQuery) ==
    /\ NoDownloadYet
    /\ lastDownload' =
          [imageUrlToDownload |-> imageUrlToDownload,
           originalUserQuery |-> originalUserQuery,
           link |-> IF Falsy(imageUrlToDownload) THEN <<>>
                    ELSE << [href |-> imageUrlToDownload[1],
                             download |->
                                 promptStart(originalUserQuery)
                                     \o PosterSuffix] >>,
           called |-> TRUE]
    /\ UNCHANGED << allSessions, activeSessionId, userPrompt,
                    isOverallLoading, showLanguageModal, pendingPrompt, now,
                    gens >>
    /\ UNCHANGED << overlayVars, serviceVars, calls >>

DownloadNext ==
    \E imageUrlToDownload \in DownloadUrls :
    \E originalUserQuery \in {<<>>} \cup {<< q >> : q \in DownloadQueries} :
        handleDownloadImageForItem(imageUrlToDownload, originalUserQuery)

\* the download button under every choice of its two arguments
SpecDownload == Init /\ [][DownloadNext]_vars

---------------------------------------------------------------------------
(* Vocabulary of the properties *)

\* the onload handler is past its post-loop re-wrap
Laid == pc \in {"paintEnglish", "paintTelugu", "encode", "resolved"}

\* at least one iteration of the font-fit loop has run
IterationRan == pc = "postloop" \/ (pc = "loop" /\ i > 0)

\* a text that is empty or made of spaces only
Blank(text) == \A k \in DOMAIN text : text[k] = EmptyWord

\* the stacked height of the blocks as last computed
StoredStackHeight ==
    englishBlockHeight + teluguBlockHeight
    + (IF ~Blank(engText) /\ ~Blank(telText)
          /\ englishLines # <<>> /\ teluguLines # <<>>
       THEN interTextPadding ELSE 0)

\* a line is within maxWidth, or is one word that alone exceeds it
LineWithin(fontSize, line, maxWidth) ==
    \/ MeasureText(fontSize, line) <= maxWidth
    \/ /\ Len(line) = 1
       /\ MeasureText(fontSize, <<line[1]>>) > maxWidth

LinesWithin(fontSize, lines, maxWidth) ==
    \A k \in DOMAIN lines : LineWithin(fontSize, lines[k], maxWidth)

\* the widths wrapText is tried at, besides the one the handler uses
WrapWidths == {0, textMaxWidth \div 3, textMaxWidth}

---------------------------------------------------------------------------
(* C1 *)

\* C1: every line wrapText returns measures at most maxWidth, except a line
\* that is a single word whose own width exceeds maxWidth: for the lines the
\* handler laid out, and for wrapText applied to either text at either
\* current font size and each of WrapWidths.
C1_WrapLinesWithinWidth ==
    /\ Laid => /\ LinesWithin(englishFontSize, englishLines, textMaxWidth)
               /\ LinesWithin(teluguFontSize, teluguLines, textMaxWidth)
    /\ \A text \in {engText, telText} :
       \A fontSize \in {englishFontSize, teluguFontSize} :
       \A maxWidth \in WrapWidths :
          LinesWithin(fontSize, wrapText(fontSize, text, maxWidth), maxWidth)

\* a layout with a line of two words that fits and a line of one word that
\* is wider than textMaxWidth
C1_Witness ==
    /\ Laid
    /\ \E k \in DOMAIN englishLines :
          /\ Len(englishLines[k]) >= 2
          /\ MeasureText(englishFontSize, englishLines[k]) <= textMaxWidth
    /\ \E k \in DOMAIN teluguLines :
          /\ Len(teluguLines[k]) = 1
          /\ MeasureText(teluguFontSize, teluguLines[k]) > textMaxWidth

---------------------------------------------------------------------------
(* C2 *)

\* C2 as stated: when the loop ends, the stack fits the available height or
\* both font sizes have reached minFontSize.
C2_FitsOrBothAtFloor ==
    pc = "postloop" =>
        \/ StoredStackHeight <= canvasH * 850
        \/ /\ englishFontSize = minFontSize
           /\ teluguFontSize = minFontSize

\* C2 amended: when the loop ends, the stack fits the available height or
\* the font size of every non-empty block has reached minFontSize.
C2_FitsOrNonEmptyAtFloor ==
    pc = "postloop" =>
        \/ StoredStackHeight <= canvasH * 850
        \/ /\ ~Blank(engText) => englishFontSize = minFontSize
           /\ ~Blank(telText) => teluguFontSize = minFontSize

\* the loop ended on a Telugu-only text that overflows at the floor, the
\* size of the absent English block still above the floor
C2_Witness ==
    /\ pc = "postloop"
    /\ StoredStackHeight > canvasH * 850
    /\ Blank(engText) /\ ~Blank(telText)
    /\ teluguFontSize = minFontSize
    /\ teluguFontSize < InitialTeluguFontSize(imgW, imgH)
    /\ englishFontSize > minFontSize

---------------------------------------------------------------------------
(* C3 *)

\* C3 as stated: no painted line is wider than textMaxWidth unless the font
\* size of its block has reached minFontSize.
C3_PaintedWithinWidthOrAtFloor ==
    pc = "resolved" =>
        \A k \in DOMAIN painted :
            \/ MeasureText(painted[k].fontSize, painted[k].text) <= canvasW * 850
            \/ painted[k].fontSize = minFontSize

\* C3 amended: no painted line is wider than textMaxWidth unless it is a
\* single word that alone is wider than textMaxWidth at the size it is
\* painted at, whether that size is the floor or above it.
C3_PaintedWithinWidthOrOneWord ==
    pc = "resolved" =>
        \A k \in DOMAIN painted :
            LineWithin(painted[k].fontSize, painted[k].text, canvasW * 850)

\* a poster with a one-word line wider than textMaxWidth painted at a size
\* above the floor, and with a line of two or more words that fits
C3_Witness ==
    /\ pc = "resolved"
    /\ \E k \in DOMAIN painted :
          /\ painted[k].fontSize > minFontSize
          /\ Len(painted[k].text) = 1
          /\ MeasureText(painted[k].fontSize, painted[k].text) > canvasW * 850
    /\ \E k \in DOMAIN painted :
          /\ Len(painted[k].text) >= 2
          /\ MeasureText(painted[k].fontSize, painted[k].text) <= canvasW * 850

---------------------------------------------------------------------------
(* C4 *)

\* C4: the font-fit loop runs at most 20 iterations (no iteration starts
\* once 20 have run to their end), and from the image load on both font
\* sizes are at least minFontSize = max(8, width / 70).
C4_BoundedLoopSizesAboveFloor ==
    /\ i <= 20
    /\ pc = "loop" => i < 20
    /\ (pc \in {"loop", "postloop"} \/ Laid) =>
          /\ minFontSize = Max(Px(8), Px(canvasW) \div 70)
          /\ englishFontSize >= minFontSize
          /\ teluguFontSize >= minFontSize

\* the loop ran all its 20 iterations, and shrank the Telugu size from its
\* initial value down to the floor
C4_Witness ==
    /\ pc = "postloop"
    /\ i = 20
    /\ teluguFontSize = minFontSize
    /\ InitialTeluguFontSize(imgW, imgH) > minFontSize
    /\ ~Blank(telText)

---------------------------------------------------------------------------
(* C5 *)

\* C5: from the first iteration of the font-fit loop to the end of painting
\* no step increases englishFontSize or teluguFontSize, and every line is
\* painted at a size no larger than its block's size before the step.
C5_SizesNeverIncrease ==
    [][ (pc \in {"loop", "postloop", "paintEnglish", "paintTelugu", "encode"}) =>
          /\ englishFontSize' <= englishFontSize
          /\ teluguFontSize' <= teluguFontSize
          /\ \A k \in DOMAIN painted' :
                painted'[k].fontSize <=
                    (IF painted'[k].block = "english" THEN englishFontSize
                     ELSE teluguFontSize) ]_vars

\* both blocks were painted at sizes below their initial sizes
C5_Witness ==
    /\ pc = "resolved"
    /\ \E k \in DOMAIN painted :
          /\ painted[k].block = "english"
          /\ painted[k].fontSize < InitialEnglishFontSize(imgW, imgH)
    /\ \E k \in DOMAIN painted :
          /\ painted[k].block = "telugu"
          /\ painted[k].fontSize < InitialTeluguFontSize(imgW, imgH)

---------------------------------------------------------------------------
(* C6 *)

\* the blocks' share of a total, and the rule for what is left of it
PaddingRule(total) ==
    /\ Blank(engText) => englishLines = <<>> /\ englishBlockHeight = 0
    /\ Blank(telText) => teluguLines = <<>> /\ teluguBlockHeight = 0
    /\ \/ total = englishBlockHeight + teluguBlockHeight
       \/ /\ total = englishBlockHeight + interTextPadding + teluguBlockHeight
          /\ ~Blank(engText) /\ ~Blank(telText)
          /\ englishLines # <<>> /\ teluguLines # <<>>

\* C6: the total of every iteration's fit test and the total of the final
\* layout include interTextPadding only when both texts are non-blank and
\* both have a wrapped line; a blank text has no lines and no height.
C6_PaddingOnlyBetweenTwoBlocks ==
    /\ IterationRan => PaddingRule(totalTextHeight)
    /\ Laid => PaddingRule(totalActualTextHeight)

\* a layout of a spaces-only English text and a Telugu text of several
\* lines: the total is the Telugu block alone
C6_Witness ==
    /\ Laid
    /\ engText # <<>> /\ Blank(engText)
    /\ Len(teluguLines) >= 2
    /\ totalActualTextHeight = teluguBlockHeight
    /\ totalTextHeight = teluguBlockHeight

---------------------------------------------------------------------------
(* C7 *)

\* C7: whenever the loop has ended with every non-empty block at the floor
\* and the stack taller than availableHeightForText, the warning was
\* emitted; and the composition then resolves with an image.
C7_WarnedWhenOverflowAtFloor ==
    /\ (pc = "postloop" \/ Laid) =>
          ( ( /\ StoredStackHeight > availableHeightForText
              /\ ~Blank(engText) => englishFontSize = minFontSize
              /\ ~Blank(telText) => teluguFontSize = minFontSize )
            => warned )
    /\ pc = "resolved" => result = "resolved" /\ dataUrl # <<>>

---------------------------------------------------------------------------
(* C8 *)

\* the texts and the font sizes of the painted calls, in order
PaintedTexts == [k \in DOMAIN painted |-> painted[k].text]
PaintedSizes == [k \in DOMAIN painted |-> painted[k].fontSize]

\* what wrapText returns for each text at the settled sizes
FinalEnglishLines ==
    IF Blank(engText) THEN <<>>
    ELSE wrapText(englishFontSize, engText, textMaxWidth)
FinalTeluguLines ==
    IF Blank(telText) THEN <<>>
    ELSE wrapText(teluguFontSize, telText, textMaxWidth)

\* C8: however the loop ended, the line sets and block heights of the layout
\* are those of wrapText at the final font sizes, and the painted lines are
\* exactly these lines, each at its block's final size.
C8_PaintedLinesAreFinalWrap ==
    /\ Laid =>
          /\ englishLines = FinalEnglishLines
          /\ teluguLines = FinalTeluguLines
          /\ englishBlockHeight =
                Len(FinalEnglishLines) * ((englishFontSize * 12) \div 10)
          /\ teluguBlockHeight =
                Len(FinalTeluguLines) * ((teluguFontSize * 12) \div 10)
    /\ pc \in {"encode", "resolved"} =>
          /\ PaintedTexts = FinalEnglishLines \o FinalTeluguLines
          /\ PaintedSizes =
                [k \in 1..Len(FinalEnglishLines) |-> englishFontSize]
                \o [k \in 1..Len(FinalTeluguLines) |-> teluguFontSize]

\* a poster whose sizes were shrunk and whose painted Telugu lines are not
\* the lines the text wraps to at the initial size
C8_Witness ==
    /\ pc = "resolved"
    /\ i > 0
    /\ ~Blank(engText) /\ ~Blank(telText)
    /\ teluguLines #
          wrapText(InitialTeluguFontSize(imgW, imgH), telText, textMaxWidth)
    /\ PaintedTexts = englishLines \o teluguLines

---------------------------------------------------------------------------
(* C9 *)

\* the line height the k-th painted line was laid out with
PaintedLineHeight(k) ==
    IF painted[k].block = "english" THEN englishLineHeight
    ELSE teluguLineHeight

\* the number of painted lines of a block among the first k
RECURSIVE CountBlock(_, _)
CountBlock(block, k) ==
    IF k = 0 THEN 0
    ELSE CountBlock(block, k - 1) + (IF painted[k].block = block THEN 1 ELSE 0)

\* twice the Y of the top and of the bottom of the centred stack
StackTop2 == Px(canvasH) - totalActualTextHeight
StackBottom2 == Px(canvasH) + totalActualTextHeight

\* twice the Y of a block's top: the English block hangs from the stack's
\* top, the Telugu block stands on the stack's bottom
BlockTop2(block) ==
    IF block = "english" THEN StackTop2
    ELSE StackBottom2 - 2 * teluguBlockHeight

\* C9: the painted stack is vertically centred: the top of the first
\* painted line is at (canvasHeight - totalActualTextHeight) / 2, the bottom
\* of the last one at that plus totalActualTextHeight, line k of a block is
\* centred (k + 0.5) line heights below the block's top, and every line is
\* drawn at x = canvasWidth / 2.
C9_StackCentred ==
    (pc = "resolved" /\ painted # <<>>) =>
        /\ painted[1].y2 - PaintedLineHeight(1) = StackTop2
        /\ painted[Len(painted)].y2 + PaintedLineHeight(Len(painted))
              = StackBottom2
        /\ \A k \in DOMAIN painted :
              /\ painted[k].y2 =
                    BlockTop2(painted[k].block)
                    + (2 * (CountBlock(painted[k].block, k) - 1) + 1)
                      * PaintedLineHeight(k)
              /\ painted[k].x2 = Px(canvasW)

\* a poster with two or more lines in each block
C9_Witness ==
    /\ pc = "resolved"
    /\ Len(englishLines) >= 2 /\ Len(teluguLines) >= 2
    /\ Len(painted) = Len(englishLines) + Len(teluguLines)
    /\ totalActualTextHeight > 0

---------------------------------------------------------------------------
(* C10 *)

\* C10: with both blocks present every English line is painted before and
\* above every Telugu line and the Telugu block's top is interTextPadding
\* below the English block's bottom; with only Telugu present its block
\* starts at the stack's starting Y and the stack has no padding.
C10_EnglishAboveTelugu ==
    pc = "resolved" =>
        /\ \A j, k \in DOMAIN painted :
              (painted[j].block = "english" /\ painted[k].block = "telugu") =>
                  j < k /\ painted[j].y2 < painted[k].y2
        /\ (englishLines # <<>> /\ teluguLines # <<>>) =>
              /\ Len(painted) = Len(englishLines) + Len(teluguLines)
              /\ painted[Len(englishLines)].block = "english"
              /\ painted[Len(englishLines) + 1].block = "telugu"
              /\ painted[Len(englishLines) + 1].y2 - teluguLineHeight
                    = painted[Len(englishLines)].y2 + englishLineHeight
                      + 2 * interTextPadding
        /\ (englishLines = <<>> /\ teluguLines # <<>>) =>
              /\ painted[1].block = "telugu"
              /\ painted[1].y2 - teluguLineHeight
                    = Px(canvasH) - teluguBlockHeight

\* a poster with both blocks, the English one of two or more lines
C10_Witness ==
    /\ pc = "resolved"
    /\ \E j, k \in DOMAIN painted :
          /\ j >= 2
          /\ painted[j].block = "english"
          /\ painted[k].block = "telugu"

---------------------------------------------------------------------------
(* C11, C12: how the promise of drawImageWithTextOverlay settles *)

\* C11: the promise is rejected in exactly three cases, each with its own
\* message: no canvas element, no 2D context, and a background image that
\* fails to load; the image source is set at most once (never before the
\* first two rejections, once before the third), and a rejected call leaves
\* the canvas with the size and the content it had, nothing encoded
C11_RejectsOnlyOnCanvasContextOrLoadFailure ==
    /\ (result \notin {"pending", "resolved"}) <=> (pc = "rejected")
    /\ (~canvasOk \/ ~ctxOk) => pc = "rejected"
    /\ pc = "rejected" =>
          /\ \/ ~canvasOk /\ result = "Canvas element not found" /\ loads = 0
             \/ canvasOk /\ ~ctxOk /\ loads = 0
                /\ result = "Failed to get canvas context"
             \/ canvasOk /\ ctxOk /\ loads = 1
                /\ result = "Failed to load base image."
          /\ canvasW = 300 /\ canvasH = 150
          /\ background = <<>> /\ painted = <<>> /\ dataUrl = <<>>
    /\ loads <= 1

\* a call whose background image failed to load
C11_Witness ==
    pc = "rejected" /\ result = "Failed to load base image." /\ loads = 1

\* the order in which a call moves through its steps
StepOrder ==
    { <<"idle", "rejected">>, <<"idle", "loading">>, <<"loading", "rejected">>,
      <<"loading", "loop">>, <<"loop", "postloop">>,
      <<"postloop", "paintEnglish">>, <<"paintEnglish", "paintTelugu">>,
      <<"paintTelugu", "encode">>, <<"encode", "resolved">> }

\* C12: the promise settles at most once; the steps of a call come in the
\* order load event, canvas resized to the image and background drawn, font
\* sizes solved, text painted, canvas encoded, promise resolved (the canvas
\* size and background change only at the load event, the font sizes only up
\* to the end of the loop, the painted text only in the two paint steps, the
\* data URL only at the encoding); the data URL of a resolved call has the
\* width and height of the background image and shows that image and the
\* painted text
C12_ResolvesOnceAfterOrderedSteps ==
    /\ [][result # "pending" => result' = result /\ dataUrl' = dataUrl]_vars
    /\ [][pc' # pc => <<pc, pc'>> \in StepOrder]_vars
    /\ [][(<< canvasW, canvasH, background >>' # << canvasW, canvasH, background >>)
            => pc = "loading" /\ pc' = "loop"
               /\ canvasW' = imgW' /\ canvasH' = imgH'
               /\ background' = << imgW', imgH' >>]_vars
    /\ [][(<< englishFontSize, teluguFontSize >>'
             # << englishFontSize, teluguFontSize >>)
            => pc \in {"loading", "loop"}]_vars
    /\ [][painted' # painted => pc \in {"paintEnglish", "paintTelugu"}]_vars
    /\ [][dataUrl' # dataUrl => pc = "encode" /\ result' = "resolved"]_vars
    /\ [](result = "resolved" =>
            /\ pc = "resolved" /\ loads = 1
            /\ dataUrl = << [width |-> imgW, height |-> imgH,
                             background |-> << imgW, imgH >>,
                             text |-> painted] >>)

\* a resolved call on an image whose size differs from the canvas's own,
\* with text painted
C12_Witness ==
    /\ result = "resolved" /\ painted # <<>>
    /\ dataUrl[1].width = 1260 /\ dataUrl[1].height = 288

---------------------------------------------------------------------------
(* C19, C20: wrapText on empty texts and on words *)

\* the two calls of wrapText the handler makes in the current state
WrapCalls == { << englishFontSize, engText >>, << teluguFontSize, telText >> }

\* C19: wrapText of the empty string is the empty sequence and no line that
\* wrapText returns or the handler stores is the empty string; once the
\* handler has laid out two empty texts there are no lines, both block
\* heights and both total heights are 0, and nothing is painted
C19_EmptyTextsGiveNoLines ==
    /\ \A c \in WrapCalls :
          /\ wrapText(c[1], <<>>, canvasW * 850) = <<>>
          /\ \A k \in DOMAIN wrapText(c[1], c[2], canvasW * 850) :
                wrapText(c[1], c[2], canvasW * 850)[k] \notin {<<>>, <<0>>}
    /\ \A k \in DOMAIN englishLines : englishLines[k] \notin {<<>>, <<0>>}
    /\ \A k \in DOMAIN teluguLines : teluguLines[k] \notin {<<>>, <<0>>}
    /\ (engText = <<>> /\ telText = <<>> /\ pc \notin {"idle", "rejected"}) =>
          /\ englishLines = <<>> /\ teluguLines = <<>>
          /\ englishBlockHeight = 0 /\ teluguBlockHeight = 0
          /\ totalTextHeight = 0 /\ totalActualTextHeight = 0
          /\ painted = <<>>

\* a resolved call with both texts empty
C19_Witness ==
    /\ pc = "resolved" /\ engText = <<>> /\ telText = <<>>
    /\ dataUrl[1].text = <<>>

\* the words of a string that are not empty, in order
RECURSIVE WordsOf(_)
WordsOf(s) ==
    IF s = <<>> THEN <<>>
    ELSE (IF Head(s) = 0 THEN <<>> ELSE << Head(s) >>) \o WordsOf(Tail(s))

\* the words of the lines, in order
RECURSIVE WordsOfLines(_)
WordsOfLines(lines) ==
    IF lines = <<>> THEN <<>>
    ELSE WordsOf(Head(lines)) \o WordsOfLines(Tail(lines))

\* a line holding a word wider than maxWidth holds that word only
WideWordsAlone(fontSize, lines, maxWidth) ==
    \A k \in DOMAIN lines : \A j \in DOMAIN lines[k] :
        (fontSize * lines[k][j]) \div 10 > maxWidth => Len(lines[k]) = 1

\* C20: the words of the lines wrapText returns are the words of its input,
\* each once and in input order, and a word wider than maxWidth is alone on
\* its line, for the calls of the current state and for the lines stored
C20_WordsKeptWholeInOrder ==
    /\ \A c \in WrapCalls :
          /\ WordsOfLines(wrapText(c[1], c[2], canvasW * 850)) = WordsOf(c[2])
          /\ WideWordsAlone(c[1], wrapText(c[1], c[2], canvasW * 850),
                            canvasW * 850)
    /\ (pc \in {"paintEnglish", "paintTelugu", "encode", "resolved"}) =>
          /\ WordsOfLines(englishLines) = WordsOf(engText)
          /\ WordsOfLines(teluguLines) = WordsOf(telText)
          /\ WideWordsAlone(englishFontSize, englishLines, canvasW * 850)
          /\ WideWordsAlone(teluguFontSize, teluguLines, canvasW * 850)

\* stored lines of two words and more with a word wider than the text width
\* on a line of its own, and a line of several words in the other block
C20_Witness ==
    /\ pc = "resolved"
    /\ Len(englishLines) >= 2
    /\ \E k \in DOMAIN englishLines :
          /\ Len(englishLines[k]) = 1
          /\ (englishFontSize * englishLines[k][1]) \div 10 > canvasW * 850
    /\ \E k \in DOMAIN teluguLines : Len(teluguLines[k]) >= 2

---------------------------------------------------------------------------
(* C16, C18: extractPosterDetailsFromPrompt *)

\* the call of extractPosterDetailsFromPrompt has settled
ExtractSettled == svcFn = "extract" /\ svcPc \in {"returned", "threw"}

\* the response parses to an object with three string fields
ParsedToExpectedShape ==
    /\ svcProvider.kind = "text"
    /\ svcProvider.json.t = "object"
    /\ svcProvider.json.theme.t = "string"
    /\ svcProvider.json.englishText.t = "string"
    /\ svcProvider.json.teluguText.t = "string"

\* C16: when the response parses to the expected shape the function
\* returns, with the theme as received, teluguText empty under 'english',
\* englishText empty under 'telugu', and every other text field as received
C16_PreferenceEmptiesOtherLanguage ==
    (ExtractSettled /\ ParsedToExpectedShape) =>
        /\ svcResult.kind = "returned"
        /\ svcResult.value.theme = svcProvider.json.theme.s
        /\ svcResult.value.teluguText =
              IF svcPref = "english" THEN <<>>
              ELSE svcProvider.json.teluguText.s
        /\ svcResult.value.englishText =
              IF svcPref = "telugu" THEN <<>>
              ELSE svcProvider.json.englishText.s

\* English only was asked for, the provider sent both texts, and the Telugu
\* text was emptied
C16_Witness ==
    /\ ExtractSettled /\ ParsedToExpectedShape
    /\ svcPref = "english"
    /\ svcProvider.json.teluguText.s # <<>>
    /\ svcProvider.json.englishText.s # <<>>
    /\ svcResult.value.teluguText = <<>>
    /\ svcResult.value.englishText # <<>>

\* the message of a malformed response, as the caller receives it
MalformedMessage ==
    << "Gemini API failed during creative content generation: ",
       "AI response for poster content was not valid JSON. Please try again." >>

---------------------------------------------------------------------------
(* C13: two calls in flight on the shared canvas *)

IsEnglishPaint(call) == call.block = "english"
IsTeluguPaint(call) == call.block = "telugu"

\* the words painted for one block in a data URL, in order
UrlWords(url, IsBlock(_)) ==
    WordsOfLines([k \in DOMAIN SelectSeq(url.text, IsBlock) |->
                     SelectSeq(url.text, IsBlock)[k].text])

\* the words a call paints for a text: none when the text is blank
OwnWords(text) == IF Blank(text) THEN <<>> ELSE WordsOf(text)

\* the data URL shows the image, the size and the texts of call c
ReflectsOwnCall(c) ==
    /\ Len(calls[c].url) = 1
    /\ calls[c].url[1].width = calls[c].img[1]
    /\ calls[c].url[1].height = calls[c].img[2]
    /\ calls[c].url[1].background = calls[c].img
    /\ UrlWords(calls[c].url[1], IsEnglishPaint) = OwnWords(calls[c].eng)
    /\ UrlWords(calls[c].url[1], IsTeluguPaint) = OwnWords(calls[c].tel)

\* C13 (amended): with two calls in flight at once, whatever the order of
\* their load callbacks, the data URL a call resolves with has the size and
\* shows the image and the texts of that call, and a call has a data URL
\* only once it is resolved
C13_EachCallGetsItsOwnPicture ==
    \A c \in CallIds :
        /\ calls[c].status = "resolved" => ReflectsOwnCall(c)
        /\ calls[c].status # "resolved" => calls[c].url = <<>>

\* both calls resolved, with different images and different texts, the
\* canvas holding the picture of one of them
C13_Witness ==
    /\ calls[1].status = "resolved" /\ calls[2].status = "resolved"
    /\ calls[1].img # calls[2].img
    /\ ~Blank(calls[1].eng) /\ ~Blank(calls[2].eng)
    /\ calls[1].eng # calls[2].eng
    /\ calls[1].url # calls[2].url
    /\ background = calls[1].img

\* C13 (as stated): the calls race on the canvas, so that a data URL can
\* show the other call's picture: while the load callback of one call has
\* resized or painted the canvas and has not yet encoded it, the load
\* callback of the other call can run
C13_CallbacksInterleaveOnCanvas ==
    \A c \in CallIds :
        (calls[c].status = "running" /\ calls[3 - c].status = "loading")
            => ENABLED TwoOnLoad(3 - c)

---------------------------------------------------------------------------
(* C14, C15, C17: the generations of the App *)

\* the calls of proceedWithGeneration that have not returned
InFlight == { g \in DOMAIN gens : gens[g].pc # "done" }

\* the aiResponse items of call g that the sessions hold
AiItemsOf(g) ==
    UNION { { allSessions[n].items[k] :
                k \in { m \in DOMAIN allSessions[n].items :
                          allSessions[n].items[m].id = << "ai", gens[g].t >> } } :
            n \in { m \in DOMAIN allSessions :
                      allSessions[m].id = gens[g].sessionId } }

\* the error state of an item
InErrorState(item) ==
    /\ ~item.isLoading
    /\ item.errorText # <<>>
    /\ item.imageUrl = <<>>

\* C14: whatever the user does, at most one generation, and so at most one
\* composition on the canvas, is in flight at a time, and isOverallLoading
\* is true for as long as a generation is running
C14_AtMostOneGenerationInFlight ==
    /\ Cardinality(InFlight) <= 1
    /\ Cardinality({ g \in DOMAIN gens : gens[g].pc = "composing" }) <= 1
    /\ InFlight # {} => isOverallLoading

\* title summarization failed in call g: summarizePromptForTitle returned ""
\* for a prompt that is not blank
SummaryFailed(g) == gens[g].summarized = << Returned(<<>>) >>

\* C15 (amended): a failure of content extraction, an empty theme, a failure
\* of image generation or of composition is caught in proceedWithGeneration,
\* and if the session of the request still exists its aiResponse item is
\* left in the error state, showing the message of the failure; a failure of
\* title summarization is not an error of the request, which goes on to
\* content extraction; and isOverallLoading is false when a call returns
C15_CaughtFailuresBecomeItemErrors ==
    /\ [](\A g \in DOMAIN gens :
            (gens[g].pc = "done" /\ gens[g].error # <<>>) =>
                /\ gens[g].sessionId \in SessionIds(allSessions)
                       => AiItemsOf(g) # {}
                /\ \A item \in AiItemsOf(g) :
                       InErrorState(item) /\ item.errorText = gens[g].error)
    /\ [][\A g \in DOMAIN gens :
            /\ gens[g].pc = "summarizing" /\ gens'[g].pc # "summarizing"
                 => gens'[g].pc = "extracting"
            /\ gens[g].pc # "done" /\ gens'[g].pc = "done"
                 => ~isOverallLoading']_vars

\* a request whose title summarization failed and whose image generation
\* failed after that has returned: its item shows the error
C15_Witness ==
    \E g \in DOMAIN gens :
        /\ gens[g].pc = "done"
        /\ SummaryFailed(g)
        /\ gens[g].posterDetails # <<>>
        /\ gens[g].error # <<>>
        /\ \E item \in AiItemsOf(g) :
               InErrorState(item) /\ item.errorText = gens[g].error
        /\ ~isOverallLoading

\* C15 (as stated): every failure in the pipeline, that of title
\* summarization included, becomes the error state of the request's item
C15_EveryFailureBecomesItemError ==
    \A g \in DOMAIN gens :
        (gens[g].pc = "done" /\ (SummaryFailed(g) \/ gens[g].error # <<>>))
            => \E item \in AiItemsOf(g) : InErrorState(item)

\* C17: summarizePromptForTitle never throws and returns "" on failure, and
\* when it fails for a session titled 'New Chat' the session's title becomes
\* the truncated prompt
C17_FailedSummaryFallsBackToPrompt ==
    \A g \in DOMAIN gens :
        /\ gens[g].summarized # <<>>
               => gens[g].summarized[1].kind = "returned"
        /\ ( /\ gens[g].pc = "extracting"
             /\ SummaryFailed(g)
             /\ gens[g].sessionTitle = NewChat
             /\ gens[g].sessionId \in SessionIds(allSessions) )
           => FindSession(allSessions, gens[g].sessionId).title
                  = TruncatedTitle(gens[g].promptToGenerate)

---------------------------------------------------------------------------
(* C21, C22: the shrink step of the font-fit loop *)

\* C21: when the loop has ended with the stack taller than the available
\* height, at most 20 iterations have run, the font size of every non-empty
\* block is minFontSize = max(8, width / 70), and the call goes on to paint
\* the lines of that layout at that size and to resolve with an image
C21_OverflowEndsAtFloorAndPaints ==
    ((pc = "postloop" \/ Laid) /\ StoredStackHeight > canvasH * 850) =>
        /\ i <= 20
        /\ ~Blank(engText) =>
               englishFontSize = Max(Px(8), Px(canvasW) \div 70)
        /\ ~Blank(telText) =>
               teluguFontSize = Max(Px(8), Px(canvasW) \div 70)
        /\ pc = "resolved" =>
               /\ result = "resolved" /\ dataUrl # <<>>
               /\ PaintedTexts = englishLines \o teluguLines
               /\ \A k \in DOMAIN painted :
                      painted[k].fontSize = Max(Px(8), Px(canvasW) \div 70)

\* a poster of two texts that overflow at the floor, both shrunk down to it
\* from larger initial sizes, painted and resolved
C21_Witness ==
    /\ pc = "resolved" /\ result = "resolved"
    /\ StoredStackHeight > canvasH * 850
    /\ ~Blank(engText) /\ ~Blank(telText)
    /\ InitialEnglishFontSize(imgW, imgH) > minFontSize
    /\ englishFontSize = minFontSize /\ teluguFontSize = minFontSize
    /\ Len(painted) >= MaxWords

\* C22: in an iteration that does not fit, a block's font size becomes
\* max(minFontSize, size x 0.9) if its text is not blank and its size is
\* above minFontSize, and is left unchanged otherwise, whatever the other
\* block's text and size
C22_ShrinkStepPerBlock ==
    [][ ( /\ pc = "loop"
          /\ StackHeight(WrapEnglish, WrapTelugu, englishFontSize,
                         teluguFontSize) > canvasH * 850 ) =>
          /\ englishFontSize' =
                IF ~Blank(engText) /\ englishFontSize > minFontSize
                THEN Max(minFontSize, (englishFontSize * 9) \div 10)
                ELSE englishFontSize
          /\ teluguFontSize' =
                IF ~Blank(telText) /\ teluguFontSize > minFontSize
                THEN Max(minFontSize, (teluguFontSize * 9) \div 10)
                ELSE teluguFontSize ]_vars

\* after one iteration that did not fit: the English size shrunk by a
\* tenth, the size of the blank Telugu block still its initial size
C22_Witness ==
    /\ pc = "loop" /\ i = 1
    /\ ~Blank(engText) /\ Blank(telText)
    /\ englishFontSize = (InitialEnglishFontSize(imgW, imgH) * 9) \div 10
    /\ englishFontSize > minFontSize
    /\ teluguFontSize = InitialTeluguFontSize(imgW, imgH)
    /\ teluguFontSize > minFontSize

---------------------------------------------------------------------------
(* C23: the download file name *)

\* what the file name shows for the character c of the query
ExpectedFileChar(c) ==
    IF c \in ClassAZ09 THEN c
    ELSE IF \E k \in DOMAIN UpperLetters : UpperLetters[k] = c
    THEN LowerLetters[CHOOSE k \in DOMAIN UpperLetters : UpperLetters[k] = c]
    ELSE "_"

\* the file name of the last download without its last 11 characters
FileNameStem ==
    SubSeq(lastDownload.link[1].download, 1,
           Len(lastDownload.link[1].download) - 11)

\* C23: a download happens exactly when the item has an image URL; its file
\* name ends with '_poster.png', and the part before is 'ai_poster' for a
\* missing (or empty) query and otherwise the first 30 characters of the
\* query, each letter of a-z or A-Z in lower case, each digit as it is,
\* every other character as '_': at most 30 characters, all in [a-z0-9_]
C23_DownloadFileName ==
    lastDownload.called =>
        /\ lastDownload.link = <<>> <=>
               \/ lastDownload.imageUrlToDownload = <<>>
               \/ lastDownload.imageUrlToDownload = << <<>> >>
        /\ lastDownload.link # <<>> =>
            /\ lastDownload.link[1].href = lastDownload.imageUrlToDownload[1]
            /\ lastDownload.link[1].download =
                   FileNameStem \o << "_", "p", "o", "s", "t", "e", "r",
                                      ".", "p", "n", "g" >>
            /\ Len(FileNameStem) <= 30
            /\ \A k \in DOMAIN FileNameStem :
                   FileNameStem[k] \in ClassAZ09 \cup {"_"}
            /\ IF lastDownload.originalUserQuery \in { <<>>, << <<>> >> }
               THEN FileNameStem = << "a", "i", "_", "p", "o", "s", "t", "e", "r" >>
               ELSE /\ Len(FileNameStem) =
                          Min(30, Len(lastDownload.originalUserQuery[1]))
                    /\ \A k \in DOMAIN FileNameStem :
                          FileNameStem[k] =
                              ExpectedFileChar(
                                  lastDownload.originalUserQuery[1][k])

\* the download of a poster whose query has 31 characters, upper-case
\* letters in front, the Kelvin sign as its 30th and a digit as its 31st
C23_Witness ==
    /\ lastDownload.called
    /\ lastDownload.link # <<>>
    /\ lastDownload.originalUserQuery # <<>>
    /\ Len(lastDownload.originalUserQuery[1]) = 31
    /\ lastDownload.originalUserQuery[1][1] = "B"
    /\ lastDownload.originalUserQuery[1][30] = "U+212A"
    /\ lastDownload.originalUserQuery[1][31] = "7"
    /\ Len(FileNameStem) = 30
    /\ FileNameStem[1] = "b" /\ FileNameStem[30] = "_"

---------------------------------------------------------------------------
(* C24: the message for a response of the wrong shape *)

\* the message of the Error thrown has the sentence among its parts
Mentions(sentence) ==
    \E k \in DOMAIN svcResult.message : << svcResult.message[k] >> = sentence

\* C24: when the response parses as JSON but theme, englishText or
\* teluguText is not a string, extractPosterDetailsFromPrompt fails with the
\* not-in-the-correct-format message, and it uses the not-valid-JSON message
\* only when the response text cannot be parsed
C24_WrongShapeHasItsOwnMessage ==
    (ExtractSettled /\ svcProvider.kind = "text") =>
        /\ (svcProvider.json.t \in {"object", "number"}
                /\ ~ParsedToExpectedShape) =>
               /\ svcPc = "threw"
               /\ Mentions(<< "AI failed to provide poster content in the correct format. Try rephrasing your idea." >>)
        /\ (svcPc = "threw"
                /\ Mentions(<< "AI response for poster content was not valid JSON. Please try again." >>)) =>
               svcProvider.json.t \in {"unparseable", "empty"}

---------------------------------------------------------------------------
(* C25: the session list and the active session *)

\* the sessions removed by the step
RemovedIds == SessionIds(allSessions) \ SessionIds(allSessions')

\* C25: the session list is never empty and activeSessionId is the id of a
\* session in it; a step that deletes the last remaining session leaves one
\* new empty session titled 'New Chat', which is active; a step that deletes
\* the active session among several activates the newest one left; a step
\* that deletes another session keeps the active one
C25_ActiveSessionAlwaysListed ==
    /\ [](/\ allSessions # <<>>
          /\ activeSessionId \in SessionIds(allSessions))
    /\ [][ RemovedIds # {} =>
             IF RemovedIds = SessionIds(allSessions)
             THEN /\ Len(allSessions') = 1
                  /\ allSessions'[1].id \notin SessionIds(allSessions)
                  /\ allSessions'[1].title =
                         << "N", "e", "w", " ", "C", "h", "a", "t" >>
                  /\ allSessions'[1].items = <<>>
                  /\ activeSessionId' = allSessions'[1].id
             ELSE IF activeSessionId \in RemovedIds
             THEN \E k \in DOMAIN allSessions' :
                     /\ activeSessionId' = allSessions'[k].id
                     /\ \A j \in DOMAIN allSessions' :
                            allSessions'[j].createdAt
                                <= allSessions'[k].createdAt
             ELSE activeSessionId' = activeSessionId ]_vars

\* the only session was deleted before any generation: one new empty
\* session is listed and active
C25_Witness ==
    /\ gens = <<>>
    /\ Len(allSessions) = 1
    /\ allSessions[1].id # 0
    /\ allSessions[1].title = NewChat /\ allSessions[1].items = <<>>
    /\ activeSessionId = allSessions[1].id

---------------------------------------------------------------------------
(* C26: the items of a session *)

\* the aiResponse item has stopped loading
Settled(item) == item.type = "aiResponse" /\ ~item.isLoading

\* C26: an aiResponse item that has stopped loading has an image URL or an
\* error text and not both; no step changes such an item of a session that
\* stays; and every userPrompt item is followed at once by the aiResponse
\* item of its request
C26_ItemsSettleOnce ==
    /\ [](\A n \in DOMAIN allSessions :
          \A k \in DOMAIN allSessions[n].items :
             LET item == allSessions[n].items[k]
             IN  /\ Settled(item) =>
                        (item.imageUrl # <<>>) # (item.errorText # <<>>)
                 /\ item.type = "userPrompt" =>
                        /\ k < Len(allSessions[n].items)
                        /\ allSessions[n].items[k + 1].type = "aiResponse"
                        /\ allSessions[n].items[k + 1].id[2] = item.id[2]
                        /\ allSessions[n].items[k + 1].originalUserQuery
                               = item.promptText)
    /\ [][\A n \in DOMAIN allSessions : \A m \in DOMAIN allSessions' :
            allSessions[n].id = allSessions'[m].id =>
                \A k \in DOMAIN allSessions[n].items :
                    Settled(allSessions[n].items[k]) =>
                        /\ k \in DOMAIN allSessions'[m].items
                        /\ allSessions'[m].items[k] = allSessions[n].items[k]
         ]_vars

\* a session with two requests, one ended with a poster and one with an
\* error
C26_Witness ==
    \E n \in DOMAIN allSessions :
        /\ Len(allSessions[n].items) = 4
        /\ Settled(allSessions[n].items[2])
        /\ Settled(allSessions[n].items[4])
        /\ allSessions[n].items[2].imageUrl # <<>>
        /\ allSessions[n].items[4].errorText # <<>>

---------------------------------------------------------------------------
(* C27: where the updates of a generation go *)

\* call g started or moved in the step
Moved(g) == g \notin DOMAIN gens \/ gens'[g] # gens[g]

\* the items of a session before and after the step differ only in what
\* call g may write: its two new items at the end, its aiResponse item
OnlyItemsOf(g, before, after) ==
    /\ Len(after) >= Len(before)
    /\ \A k \in DOMAIN after :
          IF k \in DOMAIN before
          THEN after[k] # before[k] => before[k].id = << "ai", gens'[g].t >>
          ELSE after[k].id[2] = gens'[g].t

\* C27: a call of proceedWithGeneration keeps the session that was active
\* when it started; a step changes the items of a session only for a call
\* of that session which starts or moves in the step, and only that call's
\* items; and a session that was deleted is never listed again, whatever
\* the calls of that session do later
C27_UpdatesGoToOriginatingSession ==
    [][ /\ \A g \in DOMAIN gens' :
              IF g \in DOMAIN gens
              THEN gens'[g].sessionId = gens[g].sessionId
              ELSE gens'[g].sessionId = activeSessionId
        /\ \A n \in DOMAIN allSessions : \A m \in DOMAIN allSessions' :
              ( /\ allSessions[n].id = allSessions'[m].id
                /\ allSessions'[m].items # allSessions[n].items ) =>
                  \E g \in DOMAIN gens' :
                      /\ Moved(g)
                      /\ gens'[g].sessionId = allSessions[n].id
                      /\ OnlyItemsOf(g, allSessions[n].items,
                                     allSessions'[m].items)
        /\ \A id \in SessionIds(allSessions') \ SessionIds(allSessions) :
              /\ gens' = gens
              /\ \A g \in DOMAIN gens : gens[g].sessionId # id
      ]_vars

\* two calls have returned: the poster of one is in its session, the poster
\* of the other was dropped with its deleted session
C27_Witness ==
    \E g \in DOMAIN gens : \E h \in DOMAIN gens :
        /\ gens[g].pc = "done" /\ gens[g].error = <<>>
        /\ gens[g].sessionId \notin SessionIds(allSessions)
        /\ gens[h].pc = "done"
        /\ \E item \in AiItemsOf(h) : item.imageUrl # <<>>

---------------------------------------------------------------------------
(* C28: the language modal *)

\* the step closes the modal and is not a language choice, which clears the
\* typed prompt
ClosedWithoutChoice ==
    showLanguageModal /\ ~showLanguageModal' /\ userPrompt' # <<>>

\* C28: a call of proceedWithGeneration starts only in a step that takes
\* the open modal away, with the pending prompt as its prompt; the modal
\* opens only with isOverallLoading false and a typed prompt that is not
\* blank, which becomes the pending prompt; while the modal is open the
\* typed prompt is not blank and the pending prompt is not replaced by
\* another prompt; and closing the modal without a choice starts no call,
\* empties the pending prompt and leaves the typed prompt and the sessions
\* as they are
C28_GenerationOnlyFromModal ==
    /\ [](showLanguageModal => TrimString(userPrompt) # <<>>)
    /\ [][ /\ Len(gens') >= Len(gens)
           /\ Len(gens') > Len(gens) =>
                 /\ Len(gens') = Len(gens) + 1
                 /\ showLanguageModal /\ ~showLanguageModal'
                 /\ gens'[Len(gens')].promptToGenerate = pendingPrompt
                 /\ TrimString(pendingPrompt) # <<>>
           /\ (~showLanguageModal /\ showLanguageModal') =>
                 /\ ~isOverallLoading
                 /\ TrimString(userPrompt) # <<>>
                 /\ pendingPrompt' = userPrompt
           /\ (showLanguageModal /\ pendingPrompt' # pendingPrompt) =>
                 pendingPrompt' = <<>>
           /\ ClosedWithoutChoice =>
                 /\ gens' = gens
                 /\ pendingPrompt' = <<>>
                 /\ userPrompt' = userPrompt
                 /\ allSessions' = allSessions
                 /\ activeSessionId' = activeSessionId ]_vars

\* one call is running, started from the modal with the prompt typed; the
\* modal was opened again and closed without a choice
C28_Witness ==
    /\ Len(gens) = 1 /\ gens[1].pc # "done"
    /\ gens[1].promptToGenerate = << "u", "g", "a", "d", "i" >>
    /\ ~showLanguageModal
    /\ pendingPrompt = <<>>
    /\ TrimString(userPrompt) # <<>>

---------------------------------------------------------------------------
(* C29: the summarized title *)

\* C29: when summarizePromptForTitle returned a title for a session titled
\* 'New Chat', that title is the session's title from then on, through
\* content extraction and to the end of the same generation (no other
\* generation having been started): the texts of the poster do not replace
\* it
C29_SummarizedTitleKept ==
    \A g \in DOMAIN gens :
        ( /\ Len(gens) = 1
          /\ gens[g].titleUpdatedBySummarization
          /\ gens[g].sessionTitle = NewChat
          /\ gens[g].sessionId \in SessionIds(allSessions) ) =>
            FindSession(allSessions, gens[g].sessionId).title
                = gens[g].summarized[1].value

---------------------------------------------------------------------------
(* C30: the loading steps of an item *)

\* the place of a loading step in the order of the three
StepRank(step) ==
    CASE step = "Analyzing your idea..." -> 1
      [] step = "Creating background image..." -> 2
      [] step = "Adding text to your poster..." -> 3

\* the aiResponse items of the sessions, each with where it is
AiItemPlaces ==
    { p \in UNION { {<< allSessions[n].id, k >> :
                        k \in DOMAIN allSessions[n].items} :
                    n \in DOMAIN allSessions } :
        FindSession(allSessions, p[1]).items[p[2]].type = "aiResponse" }

\* C30: the loadingStep of an aiResponse item is one of the three steps; it
\* is 'Analyzing your idea...' until content extraction has returned,
\* 'Creating background image...' from then until image generation has
\* returned an image, 'Adding text to your poster...' from then on; a step
\* of the program leaves it as it is or moves it to the next of the three,
\* and only while the item is loading
C30_LoadingStepMovesForward ==
    /\ [](\A g \in DOMAIN gens : \A item \in AiItemsOf(g) :
            /\ item.loadingStep \in
                   { "Analyzing your idea...", "Creating background image...",
                     "Adding text to your poster..." }
            /\ gens[g].pc = "extracting" =>
                   item.loadingStep = "Analyzing your idea..."
            /\ gens[g].pc = "imaging" =>
                   item.loadingStep = "Creating background image..."
            /\ gens[g].pc = "composing" =>
                   item.loadingStep = "Adding text to your poster..."
            /\ StepRank(item.loadingStep) >= 2 =>
                   \/ gens[g].posterDetails # <<>>
                   \/ gens[g].error =
                          << << "Failed to create poster: " >> \o NoThemeMessage >>
            /\ StepRank(item.loadingStep) = 3 => gens[g].baseImageUrl # <<>>)
    /\ [][\A p \in AiItemPlaces :
            p[1] \in SessionIds(allSessions') =>
                LET before == FindSession(allSessions, p[1]).items[p[2]]
                    after == FindSession(allSessions', p[1]).items[p[2]]
                IN  /\ after.id = before.id
                    /\ StepRank(after.loadingStep) \in
                           { StepRank(before.loadingStep),
                             StepRank(before.loadingStep) + 1 }
                    /\ after.loadingStep # before.loadingStep =>
                           before.isLoading
         ]_vars

\* an item that stopped loading with an error after it had reached the
\* third step, and an item of another request that failed at its first
C30_Witness ==
    \E g \in DOMAIN gens : \E h \in DOMAIN gens :
        /\ \E item \in AiItemsOf(g) :
              /\ ~item.isLoading /\ item.errorText # <<>>
              /\ item.loadingStep = "Adding text to your poster..."
        /\ \E item \in AiItemsOf(h) :
              /\ ~item.isLoading /\ item.errorText # <<>>
              /\ item.loadingStep = "Analyzing your idea..."

============================================================================
